---- MODULE Spec2Model ----
(***************************************************************************)
(* A model of the learning-object wrapper (src/wrapper.js) and of the      *)
(* content-type detection of the plugin registry (src/contentPlugins.js).  *)
(*                                                                         *)
(* Time is counted in ticks of 50 ms: a delay of 100 ms is 2 ticks.  All   *)
(* handlers run to completion (one action each); the synchronous part of   *)
(* initialize() is a chain of steps no other handler can interleave with.  *)
(*                                                                         *)
(* Spec: the resize negotiation, its timers and destroy().  SpecLoad: the  *)
(* manifest, the theme, the transcript and destroy().  SpecInitialize:     *)
(* initialize() with steps that throw.  SpecDetect: detectType().          *)
(* SpecMeasure: getContentHeight().  SpecPoll: the polling intervals.      *)
(* SpecPlugin: videoPlugin.load and h5pPlugin.load (src/plugins).          *)
(* SpecEvents: dispatchEvent() and who hears it.  SpecDetect also covers   *)
(* getPlugin() of the two registry variants (src/unnamed).                 *)
(***************************************************************************)
EXTENDS Integers, Sequences, FiniteSets, TLC

\* ---------------------------------------------------------------- bounds
MaxHeight == 2      \* largest height (px) a measurement yields
MaxWidth == 1       \* largest window.innerWidth
MaxTriggers == 1    \* pending triggerResize() time-outs at one time
MaxBurst == 2       \* debouncedResize() calls counted within one burst
MaxFetches == 2     \* transcript fetches in flight at one time

\* ------------------------------------------------------ program constants
DebounceDelay == 2      \* setTimeout(..., 100) of debouncedResize, in ticks
TriggerDelay == 2       \* setTimeout(..., 100) of triggerResize, in ticks
FallbackHeight == 400   \* bodyScrollHeight || 400
maxChecks == 60         \* firings of the dynamic-content interval
fallbackMax == 30       \* firings of the H5P fallback interval
PlyrTimeout == 100      \* setTimeout(..., 5000) of the wait for the Plyr script, in ticks
DomReadyDelay == 4      \* setTimeout(resolve, 200) of videoPlugin.load, in ticks

NULL == "null"
UNDEFINED == "undefined"

VARIABLES
  embedded,          \* window.parent !== window
  container,         \* this.container: "element" or NULL
  prefersDark,       \* matchMedia('(prefers-color-scheme: dark)').matches
  prefersContrast,   \* matchMedia('(prefers-contrast: high)').matches
  config,            \* this.config
  pc,                \* position of initialize()
  isReady, currentTheme, transcriptVisible, lastHeight, lastWidth,  \* this.state
  mediaQuery,        \* this.state.mediaQuery: NULL or the MediaQueryList
  mqListeners,       \* 'change' listeners of the prefers-color-scheme MediaQueryList
  armed,             \* initializeResize() registered its listeners
  timers,            \* pending time-outs, in creation order; stale: set before a destroy()
  dom,               \* what the wrapper rendered in its container
  destroyed,         \* destroy() has been called
  burstCalls,        \* debouncedResize() calls since the debounce timer was last idle
  sinceCall,         \* ticks since the last debouncedResize() call of the burst
  resizeTimer,       \* this.state.resizeTimer: NULL or a timer id (the timer flagged ref)
  lastPost,          \* the measurement of the message posted last to the parent, or NoPost
  lastMessage,       \* the last window.parent.postMessage(data, targetOrigin) call, or NoMessage
  readyEvents,       \* wrapper:ready events dispatched (saturating at 2)
  lastOp,            \* the handler that ran last, with what it measured and did
  manifest,          \* the manifest loadManifest() parsed; before, no field defined
  prevToggle,        \* the transcript state before the last toggleTranscript(); <<>> when
                     \* there was none since the transcript section exists
  trFetches,         \* languages of the transcript fetches in flight, in call order
  dtSrc,             \* detectType: the src it is called with
  dtBase,            \* detectType: the hostname of window.location.href
  dtResult,          \* detectType: what it returned, "unset" before the call
  intervals,         \* the polling intervals of setupDynamicContentWatcher() and
                     \* setupH5PResizeHandling(), with their counters
  h5pContent,        \* the page shows H5P content when resize is initialized
  ghInput,           \* getContentHeight: the layout it measures
  ghResult,          \* getContentHeight: what it returned, -1 before the call
  plugin,            \* the plugin load() in progress: its position and outcome
  page,              \* window.Plyr, the Plyr and H5P assets, the time-outs of load()
  delivery,          \* the wrapper's custom events: whether the container is in the
                     \* document, the nodes with a listener, what each listener heard
  registry           \* getPlugin: the type asked for and the loader each variant gave

vars == <<embedded, container, prefersDark, prefersContrast, config, pc, isReady,
          currentTheme, transcriptVisible, prevToggle, trFetches, lastHeight, lastWidth, mediaQuery, mqListeners, armed,
          timers, dom, destroyed, burstCalls, sinceCall, resizeTimer, lastPost, lastMessage,
          readyEvents, lastOp, manifest, dtSrc, dtBase, dtResult, intervals, h5pContent,
          ghInput, ghResult, plugin, page, delivery, registry>>

detectVars == <<dtSrc, dtBase, dtResult>>
measureVars == <<ghInput, ghResult>>
pluginVars == <<plugin, page>>
auxVars == <<delivery, registry>>
envVars == <<embedded, container, prefersContrast, h5pContent, detectVars, measureVars,
             pluginVars, auxVars>>
transcriptVars == <<transcriptVisible, prevToggle, trFetches>>
resizeVars == <<lastHeight, lastWidth, lastPost, lastMessage>>
timerVars == <<timers, burstCalls, sinceCall, resizeTimer>>
themeVars == <<prefersDark, currentTheme, mediaQuery, mqListeners>>
initVars == <<config, pc, isReady, armed, intervals, readyEvents, manifest>>

\* ------------------------------------------------------------ input sets
Themes == {"auto", "light", "dark", "high-contrast"}

Min(S) == CHOOSE x \in S : \A y \in S : x <= y
Abs(x) == IF x < 0 THEN -x ELSE x
Sat(n, max) == IF n < max THEN n + 1 ELSE max

\* A layout measurement: the .lo-wrapper rectangle height in half pixels (0: no
\* positive height) and the three whole-document heights, which are read only
\* when the rectangle gives nothing.
Measurements ==
  [rect2 : 1..(2 * MaxHeight), scrollH : {0}, offsetH : {0}, docH : {0}]
  \cup [rect2 : {0}, scrollH : 0..MaxHeight, offsetH : 0..MaxHeight, docH : 0..MaxHeight]

Ceil2(x2) == (x2 + 1) \div 2

\* Every layout: the rectangle and the three document heights independent.
Layouts ==
  [rect2 : 0..(2 * MaxHeight), scrollH : 0..MaxHeight, offsetH : 0..MaxHeight,
   docH : 0..MaxHeight]

Max(S) == CHOOSE x \in S : \A y \in S : x >= y

\* (faulty variant) the tallest of the valid document heights
getContentHeightMax(m) ==
  IF m.rect2 > 0 THEN Ceil2(m.rect2)
  ELSE LET validHeights == {h \in {m.scrollH, m.offsetH, m.docH} : h > 0}
       IN  IF validHeights # {} THEN Max(validHeights)
           ELSE IF m.scrollH # 0 THEN m.scrollH ELSE FallbackHeight

\* (faulty variant) return bodyScrollHeight, without the || 400
getContentHeightNoFallback(m) ==
  IF m.rect2 > 0 THEN Ceil2(m.rect2)
  ELSE LET validHeights == {h \in {m.scrollH, m.offsetH, m.docH} : h > 0}
       IN  IF validHeights # {} THEN Min(validHeights)
           ELSE m.scrollH

getContentHeight(m) ==
  IF m.rect2 > 0 THEN Ceil2(m.rect2)
  ELSE LET validHeights == {h \in {m.scrollH, m.offsetH, m.docH} : h > 0}
       IN  IF validHeights # {} THEN Min(validHeights)
           ELSE IF m.scrollH # 0 THEN m.scrollH ELSE FallbackHeight

MeasuredHeights == {getContentHeight(m) : m \in Measurements}
Widths == 0..MaxWidth

\* ------------------------------------------------------------- history
\* lastOp: the function that ran (name), what invoked it (via), the height and
\* width it measured, whether it posted a message, the events it dispatched.
\* same: the measurement equalled the stored lastHeight and lastWidth.  For a
\* debounce time-out: the calls of the burst it ends (burst), the ticks since
\* the last of them (elapsed); for any time-out, whether a destroy() came
\* after it was set (stale).  For destroy(): the burst it cancelled.
\* For a wrapper:ready event: the config its detail carries (detail).
NoDetail == [none |-> TRUE]
NoOp == [name |-> "none", via |-> "none", h |-> 0, w |-> 0, same |-> FALSE,
         posted |-> FALSE, events |-> {}, burst |-> 0, elapsed |-> 0, stale |-> FALSE,
         detail |-> NoDetail]
Op(name) == [NoOp EXCEPT !.name = name]
NoPost == [h |-> 0, w |-> 0, posted |-> FALSE]

\* window.parent.postMessage({subject: 'lti.frameResize', height: height}, '*'):
\* the call as the parent receives it.  sendResizeMessage() and forceResize()
\* write the same literal.
NoMessage == [data |-> [subject |-> "none", height |-> 0], targetOrigin |-> "none"]
\* (faulty variant) a message that also carries the measured width
frameResizeWithWidth(height) ==
  [data |-> [subject |-> "lti.frameResize", height |-> height, width |-> 0],
   targetOrigin |-> "*"]
frameResize(height) ==
  [data |-> [subject |-> "lti.frameResize", height |-> height], targetOrigin |-> "*"]

\* dom: the shell (built), the class of .lo-wrapper, the header, the number of
\* .lo-transcript sections and of attribution footers, the error panel, and of
\* the first transcript section: aria-hidden of its content, aria-expanded and
\* label of its button, what .lo-transcript-text shows, the language
\* #transcript-lang-select shows.
NoDom == [built |-> FALSE, themeClass |-> "none", header |-> FALSE,
          transcripts |-> 0, attribution |-> 0, error |-> FALSE,
          ariaHidden |-> "none", ariaExpanded |-> "none", label |-> "none",
          transcriptText |-> "none", language |-> "none"]

\* ------------------------------------------------------------ detectType
\* Strings are sequences of characters.
S_youtube == <<"y", "o", "u", "t", "u", "b", "e", ".", "c", "o", "m">>
S_vimeo == <<"v", "i", "m", "e", "o", ".", "c", "o", "m">>
S_h5porg == <<"h", "5", "p", ".", "o", "r", "g">>
S_h5pPath == <<"/", "h", "5", "p", "/">>
S_h5p == <<"h", "5", "p">>
S_http == <<"h", "t", "t", "p", ":", "/", "/">>
S_https == <<"h", "t", "t", "p", "s", ":", "/", "/">>
PageHosts == {<<"e", "x", "a", "m", "p", "l", "e", ".", "o", "r", "g">>, <<"h", "5", "p", ".", "o", "r", "g">>}
SrcPrefixes == {<<>>,
                <<"h", "t", "t", "p", "s", ":", "/", "/", "y", "o", "u", "t", "u", "b", "e", ".", "c", "o", "m", "/">>,
                <<"h", "t", "t", "p", "s", ":", "/", "/", "p", "l", "a", "y", "e", "r", ".", "v", "i", "m", "e", "o", ".", "c", "o", "m", "/">>,
                <<"h", "t", "t", "p", "s", ":", "/", "/", "h", "5", "p", ".", "o", "r", "g", "/">>,
                <<"h", "t", "t", "p", ":", "/", "/", "c", "d", "n", ".", "e", "x", "a", "m", "p", "l", "e", ".", "o", "r", "g", "/">>,
                <<"h", "t", "t", "p", "s", ":", "/", "/", "b", "a", "d", " ", "h", "o", "s", "t", "/">>,
                <<"H", "T", "T", "P", "S", ":", "/", "/", "Y", "o", "u", "T", "u", "b", "e", ".", "c", "o", "m", "/">>}
SrcStems == {<<"d", "o", "c">>, <<"a", "/", "h", "5", "p", "/", "b">>, <<"v", "1", ".", "2", "/", "d", "o", "c">>}
SrcExts == {<<>>,
            <<".", "m", "p", "4">>,
            <<".", "w", "e", "b", "m">>,
            <<".", "o", "g", "g">>,
            <<".", "m", "o", "v">>,
            <<".", "a", "v", "i">>,
            <<".", "M", "P", "4">>,
            <<".", "g", "l", "b">>,
            <<".", "g", "l", "t", "f">>,
            <<".", "o", "b", "j">>,
            <<".", "f", "b", "x">>,
            <<".", "3", "d", "s">>,
            <<".", "p", "l", "y">>,
            <<".", "p", "d", "f">>,
            <<".", "P", "d", "f">>,
            <<".", "t", "x", "t">>,
            <<".", "m", "p", "4", "?", "t", "=", "1">>}
VideoExts == {<<"m", "p", "4">>, <<"w", "e", "b", "m">>, <<"o", "g", "g">>, <<"m", "o", "v">>, <<"a", "v", "i">>}
ModelExts == {<<"g", "l", "b">>, <<"g", "l", "t", "f">>, <<"o", "b", "j">>, <<"f", "b", "x">>, <<"3", "d", "s">>}
S_pdf == <<"p", "d", "f">>
S_ply == <<"p", "l", "y">>
UpperCase == {"A", "B", "C", "D", "E", "F", "G", "H", "I", "J", "K", "L", "M", "N", "O", "P", "Q", "R", "S", "T", "U", "V", "W", "X", "Y", "Z"}
LowerOf == [c \in UpperCase |->
  CASE c = "A" -> "a"
    [] c = "B" -> "b"
    [] c = "C" -> "c"
    [] c = "D" -> "d"
    [] c = "E" -> "e"
    [] c = "F" -> "f"
    [] c = "G" -> "g"
    [] c = "H" -> "h"
    [] c = "I" -> "i"
    [] c = "J" -> "j"
    [] c = "K" -> "k"
    [] c = "L" -> "l"
    [] c = "M" -> "m"
    [] c = "N" -> "n"
    [] c = "O" -> "o"
    [] c = "P" -> "p"
    [] c = "Q" -> "q"
    [] c = "R" -> "r"
    [] c = "S" -> "s"
    [] c = "T" -> "t"
    [] c = "U" -> "u"
    [] c = "V" -> "v"
    [] c = "W" -> "w"
    [] c = "X" -> "x"
    [] c = "Y" -> "y"
    [] c = "Z" -> "z"]

SrcInputs == {<<>>} \cup {p \o s \o e : p \in SrcPrefixes, s \in SrcStems, e \in SrcExts}

\* String.prototype.toLowerCase
toLowerCase(str) == [i \in 1..Len(str) |-> IF str[i] \in UpperCase THEN LowerOf[str[i]] ELSE str[i]]

\* String.prototype.includes
includes(str, sub) ==
  \E i \in 0..(Len(str) - Len(sub)) : SubSeq(str, i + 1, i + Len(sub)) = sub

startsWith(str, sub) == Len(str) >= Len(sub) /\ SubSeq(str, 1, Len(sub)) = sub

\* src.split('.').pop(): what follows the last '.', the whole string without one
lastPart(str) ==
  LET dots == {i \in 1..Len(str) : str[i] = "."}
  IN  IF dots = {} THEN str
      ELSE SubSeq(str, (CHOOSE i \in dots : \A j \in dots : j <= i) + 1, Len(str))

\* new URL(src, window.location.href): an http(s) src carries its own host, the
\* characters up to the first of / ? #, lower-cased, and is refused when that
\* host is empty or holds a space; any other src of the inputs is relative and
\* resolves to the page's host.
schemeOf(src) ==
  IF startsWith(toLowerCase(src), S_https) THEN S_https
  ELSE IF startsWith(toLowerCase(src), S_http) THEN S_http
  ELSE <<>>

parseURL(src, base) ==
  IF schemeOf(src) = <<>> THEN [ok |-> TRUE, hostname |-> base]
  ELSE LET rest == SubSeq(src, Len(schemeOf(src)) + 1, Len(src))
           ends == {i \in 1..Len(rest) : rest[i] \in {"/", "?", "#"}}
           host == IF ends = {} THEN rest ELSE SubSeq(rest, 1, Min(ends) - 1)
       IN  IF host = <<>> \/ \E i \in 1..Len(host) : host[i] = " "
             THEN [ok |-> FALSE, hostname |-> <<>>]
             ELSE [ok |-> TRUE, hostname |-> toLowerCase(host)]

\* (faulty variant) detectType() testing the extensions before the video hostnames
detectTypeExtFirst(src, base) ==
  IF src = <<>> THEN "iframe"
  ELSE LET url == parseURL(src, base)
           ext == toLowerCase(lastPart(src))
       IN  IF ~url.ok THEN "iframe"
           ELSE IF ext \in ModelExts THEN "model"
           ELSE IF ext = S_pdf THEN "pdf"
           ELSE IF ext = S_ply THEN "supersplat"
           ELSE IF \/ includes(url.hostname, S_youtube)
                   \/ includes(url.hostname, S_vimeo)
                   \/ ext \in VideoExts THEN "video"
           ELSE IF \/ includes(url.hostname, S_h5porg)
                   \/ includes(src, S_h5pPath)
                   \/ includes(src, S_h5p) THEN "h5p"
           ELSE "iframe"

\* (faulty variant) detectType() looking for the h5p markers before the extensions
detectTypeH5PFirst(src, base) ==
  IF src = <<>> THEN "iframe"
  ELSE LET url == parseURL(src, base)
           ext == toLowerCase(lastPart(src))
       IN  IF ~url.ok THEN "iframe"
           ELSE IF \/ includes(url.hostname, S_youtube)
                   \/ includes(url.hostname, S_vimeo)
                   \/ ext \in VideoExts THEN "video"
           ELSE IF \/ includes(url.hostname, S_h5porg)
                   \/ includes(src, S_h5pPath)
                   \/ includes(src, S_h5p) THEN "h5p"
           ELSE IF ext \in ModelExts THEN "model"
           ELSE IF ext = S_pdf THEN "pdf"
           ELSE IF ext = S_ply THEN "supersplat"
           ELSE "iframe"

\* contentPlugins.detectType(src), on a page whose host is base
detectType(src, base) ==
  IF src = <<>> THEN "iframe"
  ELSE LET url == parseURL(src, base)
           ext == toLowerCase(lastPart(src))
       IN  IF ~url.ok THEN "iframe"          \* new URL throws: caught
           ELSE IF \/ includes(url.hostname, S_youtube)
                   \/ includes(url.hostname, S_vimeo)
                   \/ ext \in VideoExts THEN "video"
           ELSE IF ext \in ModelExts THEN "model"
           ELSE IF ext = S_pdf THEN "pdf"
           ELSE IF ext = S_ply THEN "supersplat"
           ELSE IF \/ includes(url.hostname, S_h5porg)
                   \/ includes(src, S_h5pPath)
                   \/ includes(src, S_h5p) THEN "h5p"
           ELSE "iframe"

\* (faulty variant) a detectType() testing for .ply before anything else
detectTypePlyFirst(src, base) ==
  IF src = <<>> THEN "iframe"
  ELSE LET url == parseURL(src, base)
           ext == toLowerCase(lastPart(src))
       IN  IF ~url.ok THEN "iframe"
           ELSE IF ext = S_ply THEN "supersplat"
           ELSE IF \/ includes(url.hostname, S_youtube)
                   \/ includes(url.hostname, S_vimeo)
                   \/ ext \in VideoExts THEN "video"
           ELSE IF ext \in ModelExts THEN "model"
           ELSE IF ext = S_pdf THEN "pdf"
           ELSE IF \/ includes(url.hostname, S_h5porg)
                   \/ includes(src, S_h5pPath)
                   \/ includes(src, S_h5p) THEN "h5p"
           ELSE "iframe"

\* detectType(src) of the registry that looks its loaders up in a table
\* (src/unnamed/part_002): .ply is tested before .pdf
detectTypeTable(src, base) ==
  IF src = <<>> THEN "iframe"
  ELSE LET url == parseURL(src, base)
           ext == toLowerCase(lastPart(src))
       IN  IF ~url.ok THEN "iframe"
           ELSE IF \/ includes(url.hostname, S_youtube)
                   \/ includes(url.hostname, S_vimeo)
                   \/ ext \in VideoExts THEN "video"
           ELSE IF ext \in ModelExts THEN "model"
           ELSE IF ext = S_ply THEN "supersplat"
           ELSE IF ext = S_pdf THEN "pdf"
           ELSE IF \/ includes(url.hostname, S_h5porg)
                   \/ includes(src, S_h5pPath)
                   \/ includes(src, S_h5p) THEN "h5p"
           ELSE "iframe"

\* detectType(src) of the registry that picks its loader in a switch
\* (src/unnamed/part_003): the same text as the table variant's
detectTypeSwitch(src, base) ==
  IF src = <<>> THEN "iframe"
  ELSE LET url == parseURL(src, base)
           ext == toLowerCase(lastPart(src))
       IN  IF ~url.ok THEN "iframe"
           ELSE IF \/ includes(url.hostname, S_youtube)
                   \/ includes(url.hostname, S_vimeo)
                   \/ ext \in VideoExts THEN "video"
           ELSE IF ext \in ModelExts THEN "model"
           ELSE IF ext = S_ply THEN "supersplat"
           ELSE IF ext = S_pdf THEN "pdf"
           ELSE IF \/ includes(url.hostname, S_h5porg)
                   \/ includes(src, S_h5pPath)
                   \/ includes(src, S_h5p) THEN "h5p"
           ELSE "iframe"


\* ---------------------------------------------------------------- theme
\* (faulty variant) detectTheme() asking for dark before high contrast
detectThemeDarkFirst ==
  IF config.theme # "" /\ config.theme # "auto" THEN config.theme
  ELSE IF prefersDark THEN "dark"
  ELSE IF prefersContrast THEN "high-contrast"
  ELSE "light"

\* detectTheme(): configured theme, else high contrast, else dark, else light.
detectTheme ==
  IF config.theme # "" /\ config.theme # "auto" THEN config.theme
  ELSE IF prefersContrast THEN "high-contrast"
  ELSE IF prefersDark THEN "dark"
  ELSE "light"

\* ------------------------------------------------------- initialization
\* The constructor's options.  The inputs are explored one concern at a time.
\* Spec: a page, framed or not, with the default options, and every call and
\* event of the resize negotiation.  SpecLoad: an unframed page with every
\* theme option and system preference, or with a manifest and the options a
\* manifest interacts with, and the steps of loading, theming and teardown.
BaseConfig == [type |-> "auto", title |-> "", showHeader |-> TRUE, manifestUrl |-> NULL,
               theme |-> "light", src |-> "b.mp4",
               transcripts |-> UNDEFINED, attribution |-> UNDEFINED]

ManifestConfigs ==
  {[BaseConfig EXCEPT !.manifestUrl = "m.json", !.type = o[1], !.title = o[2], !.src = o[3]] :
     o \in {<<"auto", "", UNDEFINED>>, <<"auto", "T", "b.mp4">>, <<"model", "", "b.mp4">>}}

\* No interval is set before initializeResize().
NoIntervals == [dynamicChecker |-> "none", checkCount |-> 0,
                fallbackChecker |-> "none", fallbackCount |-> 0]

\* No plugin has been asked to load; the page holds none of the optional assets.
NoPlugin == [name |-> "none", pc |-> "idle", src |-> "", result |-> "none",
             rendered |-> FALSE, player |-> FALSE]
BarePage == [Plyr |-> FALSE, plyrCss |-> "absent", plyrJs |-> "absent",
             resizer |-> "absent", timeout |-> -1, domWait |-> -1]
NoPluginLoad == plugin = NoPlugin /\ page = BarePage

\* getContentHeight() has not been called on its own.
NoLayout == [rect2 |-> 0, scrollH |-> 0, offsetH |-> 0, docH |-> 0]
NoMeasure == ghInput = NoLayout /\ ghResult = -1

\* The state the constructor leaves before it calls initialize().
\* Before any event: the container not yet in the document, no listener.
Nodes == {"container", "document"}
NoDelivery == [attached |-> FALSE, listeners |-> {}, dispatched |-> 0,
               heard |-> [n \in Nodes |-> 0]]

\* Before any getPlugin(type) call.
NoLookup == [type |-> "unset", table |-> "unset", switch |-> "unset"]

InitState ==
  /\ pc = "new"
  /\ isReady = FALSE
  /\ currentTheme = "light"
  /\ transcriptVisible = FALSE
  /\ prevToggle = <<>>
  /\ trFetches = <<>>
  /\ lastHeight = 0
  /\ lastWidth = 0
  /\ mediaQuery = NULL
  /\ mqListeners = {}
  /\ armed = FALSE
  /\ timers = <<>>
  /\ dom = NoDom
  /\ destroyed = FALSE
  /\ burstCalls = 0
  /\ sinceCall = 0
  /\ resizeTimer = NULL
  /\ lastPost = NoPost
  /\ lastMessage = NoMessage
  /\ delivery = NoDelivery
  /\ registry = NoLookup
  /\ readyEvents = 0
  /\ lastOp = NoOp
  /\ manifest = [f \in {"type", "src", "title", "transcripts", "attribution"} |-> UNDEFINED]
  /\ intervals = NoIntervals

Init ==
  /\ embedded \in BOOLEAN
  /\ container = "element"
  /\ config = BaseConfig
  /\ prefersContrast = FALSE
  /\ prefersDark = FALSE
  /\ InitState
  /\ dtSrc = <<>>
  /\ dtBase = <<>>
  /\ dtResult = "unset"
  /\ h5pContent = FALSE
  /\ NoMeasure
  /\ NoPluginLoad

InitLoad ==
  /\ embedded = FALSE
  /\ container = "element"
  /\ \/ /\ config \in {[BaseConfig EXCEPT !.theme = t] : t \in Themes \cup {""}}
        /\ prefersContrast \in BOOLEAN
     \/ /\ config \in ManifestConfigs
        /\ prefersContrast = FALSE
  /\ prefersDark \in BOOLEAN
  /\ InitState
  /\ dtSrc = <<>>
  /\ dtBase = <<>>
  /\ dtResult = "unset"
  /\ h5pContent = FALSE
  /\ NoMeasure
  /\ NoPluginLoad

Idle == pc \in {"fetching", "body", "ready"}

\* dispatchEvent('wrapper:ready', {config: this.config, ...}) after
\* this.state.isReady = true; the config is the one the step leaves.
markReady(op) ==
  /\ isReady' = TRUE
  /\ readyEvents' = Sat(readyEvents, 2)
  /\ pc' = "ready"
  /\ lastOp' = [op EXCEPT !.events = @ \cup {"wrapper:ready"}, !.detail = config']

\* createWrapperStructure(): detect the theme, render the shell.
createWrapperStructure ==
  /\ pc = "new"
  /\ container # NULL
  /\ currentTheme' = detectTheme
  /\ dom' = [dom EXCEPT !.built = TRUE, !.themeClass = detectTheme,
                        !.header = (config.showHeader /\ config.title # "")]
  /\ pc' = "structure"
  /\ lastOp' = Op("createWrapperStructure")
  /\ UNCHANGED <<envVars, prefersDark, config, isReady, transcriptVars, resizeVars,
                 mediaQuery, mqListeners, armed, intervals, timerVars, destroyed, readyEvents, manifest>>

ThemeListener == "themeListener"      \* the arrow function given to addEventListener
handleThemeChange == UNDEFINED        \* this.handleThemeChange: no such member

\* (faulty variant) setupThemeListener() attaching whatever the configuration
setupThemeListenerAlways ==
  /\ pc = "structure"
  /\ mediaQuery' = "mq"
  /\ mqListeners' = mqListeners \cup {ThemeListener}
  /\ pc' = "theme"
  /\ lastOp' = Op("setupThemeListener")
  /\ UNCHANGED <<envVars, prefersDark, currentTheme, config, isReady, transcriptVars,
                 resizeVars, armed, intervals, timerVars, dom, destroyed, readyEvents,
                 manifest>>

\* setupThemeListener(): only in automatic mode.
setupThemeListener ==
  /\ pc = "structure"
  /\ IF config.theme = "auto"
       THEN /\ mediaQuery' = "mq"
            /\ mqListeners' = mqListeners \cup {ThemeListener}
       ELSE UNCHANGED <<mediaQuery, mqListeners>>
  /\ pc' = "theme"
  /\ lastOp' = Op("setupThemeListener")
  /\ UNCHANGED <<envVars, prefersDark, currentTheme, config, isReady, transcriptVars,
                 resizeVars, armed, intervals, timerVars, dom, destroyed, readyEvents,
                 manifest>>

\* ---------------------------------------------------------------- resize
\* (faulty variant) the threshold taken as "at least 1"
ResizeNeededAtLeastOne(h, w, lh, lw) == Abs(h - lh) >= 1 \/ w # lw

\* The condition of sendResizeMessage(): height moved by more than 1, or any
\* width change.
ResizeNeeded(h, w, lh, lw) == Abs(h - lh) > 1 \/ w # lw

\* (faulty variant) sendResizeMessage() that posts without storing what it posted
sendResizeMessageNoStore(op) ==
  IF ~embedded
    THEN /\ lastOp' = [op EXCEPT !.name = "sendResizeMessage"]
         /\ UNCHANGED resizeVars
    ELSE \E h \in MeasuredHeights, w \in Widths :
         LET send == ResizeNeeded(h, w, lastHeight, lastWidth) IN
         /\ UNCHANGED <<lastHeight, lastWidth>>
         /\ lastPost' = IF send THEN [h |-> h, w |-> w, posted |-> TRUE] ELSE lastPost
         /\ lastMessage' = IF send THEN frameResize(h) ELSE lastMessage
         /\ lastOp' = [op EXCEPT !.name = "sendResizeMessage", !.h = h, !.w = w,
                                 !.same = (h = lastHeight /\ w = lastWidth),
                                 !.posted = send]

\* (faulty variant) sendResizeMessage() without the frame check
sendResizeMessageUnframed(op) ==
  \E h \in MeasuredHeights, w \in Widths :
    LET send == ResizeNeeded(h, w, lastHeight, lastWidth) IN
    /\ lastHeight' = IF send THEN h ELSE lastHeight
    /\ lastWidth' = IF send THEN w ELSE lastWidth
    /\ lastPost' = IF send THEN [h |-> h, w |-> w, posted |-> TRUE] ELSE lastPost
    /\ lastMessage' = IF send THEN frameResize(h) ELSE lastMessage
    /\ lastOp' = [op EXCEPT !.name = "sendResizeMessage", !.h = h, !.w = w,
                            !.same = (h = lastHeight /\ w = lastWidth),
                            !.posted = send]

\* (faulty variant) sendResizeMessage() that stores what it measured even when
\* it posts nothing
sendResizeMessageAlwaysStores(op) ==
  IF ~embedded
    THEN /\ lastOp' = [op EXCEPT !.name = "sendResizeMessage"]
         /\ UNCHANGED resizeVars
    ELSE \E h \in MeasuredHeights, w \in Widths :
         LET send == ResizeNeeded(h, w, lastHeight, lastWidth) IN
         /\ lastHeight' = h
         /\ lastWidth' = w
         /\ lastPost' = IF send THEN [h |-> h, w |-> w, posted |-> TRUE] ELSE lastPost
         /\ lastMessage' = IF send THEN frameResize(h) ELSE lastMessage
         /\ lastOp' = [op EXCEPT !.name = "sendResizeMessage", !.h = h, !.w = w,
                                 !.same = (h = lastHeight /\ w = lastWidth),
                                 !.posted = send]

\* sendResizeMessage(): outside a frame nothing is measured; else the height
\* and width are measured and reported when they moved.  op carries how it was
\* invoked.
sendResizeMessage(op) ==
  IF ~embedded
    THEN /\ lastOp' = [op EXCEPT !.name = "sendResizeMessage"]
         /\ UNCHANGED resizeVars
    ELSE \E h \in MeasuredHeights, w \in Widths :
         LET send == ResizeNeeded(h, w, lastHeight, lastWidth) IN
         /\ lastHeight' = IF send THEN h ELSE lastHeight
         /\ lastWidth' = IF send THEN w ELSE lastWidth
         /\ lastPost' = IF send THEN [h |-> h, w |-> w, posted |-> TRUE] ELSE lastPost
         /\ lastMessage' = IF send THEN frameResize(h) ELSE lastMessage
         /\ lastOp' = [op EXCEPT !.name = "sendResizeMessage", !.h = h, !.w = w,
                                 !.same = (h = lastHeight /\ w = lastWidth),
                                 !.posted = send]

\* (faulty variant) forceResize() keeping the change threshold
forceResizeThresholded(op) ==
  IF ~embedded
    THEN /\ lastOp' = [op EXCEPT !.name = "forceResize"]
         /\ UNCHANGED resizeVars
    ELSE \E h \in MeasuredHeights, w \in Widths :
         LET send == ResizeNeeded(h, w, lastHeight, lastWidth) IN
         /\ lastHeight' = IF send THEN h ELSE lastHeight
         /\ lastWidth' = IF send THEN w ELSE lastWidth
         /\ lastPost' = IF send THEN [h |-> h, w |-> w, posted |-> TRUE] ELSE lastPost
         /\ lastMessage' = IF send THEN frameResize(h) ELSE lastMessage
         /\ lastOp' = [op EXCEPT !.name = "forceResize", !.h = h, !.w = w,
                                 !.same = (h = lastHeight /\ w = lastWidth),
                                 !.posted = send]

\* forceResize(): outside a frame a no-op; else always reports what it measures.
forceResize(op) ==
  IF ~embedded
    THEN /\ lastOp' = [op EXCEPT !.name = "forceResize"]
         /\ UNCHANGED resizeVars
    ELSE \E h \in MeasuredHeights, w \in Widths :
         /\ lastHeight' = h
         /\ lastWidth' = w
         /\ lastPost' = [h |-> h, w |-> w, posted |-> TRUE]
         /\ lastMessage' = frameResize(h)
         /\ lastOp' = [op EXCEPT !.name = "forceResize", !.h = h, !.w = w,
                                 !.same = (h = lastHeight /\ w = lastWidth),
                                 !.posted = TRUE]

\* (faulty variant) a clearTimeout() that cancels nothing
clearTimeoutKeeps(ts) == ts

\* clearTimeout(this.state.resizeTimer): the timer that id names, if pending.
clearTimeout(ts) == SelectSeq(ts, LAMBDA t : ~t.ref)

NewTimer(kind, delay, ref) ==
  [kind |-> kind, left |-> delay, ref |-> ref, stale |-> FALSE]

\* (faulty variant) debouncedResize() that sets a timer without clearing the old one
debounceTimersNoClear(ts) == Append(ts, NewTimer("debounce", DebounceDelay, TRUE))

\* The timers after debouncedResize(): the old one cleared, a new one set.
debounceTimers(ts) == Append(clearTimeout(ts), NewTimer("debounce", DebounceDelay, TRUE))

DebouncePending == \E i \in 1..Len(timers) : timers[i].kind = "debounce"

\* debouncedResize()
debouncedResizeBody ==
  /\ burstCalls < MaxBurst
  /\ timers' = debounceTimers(timers)
  /\ resizeTimer' = "id"
  /\ burstCalls' = IF DebouncePending THEN burstCalls + 1 ELSE 1
  /\ sinceCall' = 0

\* triggerResize(): a time-out of its own, kept nowhere.
triggerResizeBody ==
  /\ Cardinality({i \in 1..Len(timers) : timers[i].kind = "trigger"}) < MaxTriggers
  /\ timers' = Append(timers, NewTimer("trigger", TriggerDelay, FALSE))
  /\ UNCHANGED <<burstCalls, sinceCall, resizeTimer>>

\* The intervals setupDynamicContentWatcher() and, through it,
\* setupH5PResizeHandling() set: the dynamic-content checker always, the H5P
\* fallback checker when the page shows H5P content.
setupDynamicContentWatcher ==
  [dynamicChecker |-> "set", checkCount |-> 0,
   fallbackChecker |-> IF h5pContent THEN "set" ELSE "none", fallbackCount |-> 0]

\* (faulty variant) initialize() arming resize before the structure is built
initializeResizeBeforeStructure ==
  /\ pc = "new"
  /\ pc' = "resize"
  /\ IF ~embedded
       THEN /\ lastOp' = Op("initializeResize")
            /\ UNCHANGED <<resizeVars, armed, intervals>>
       ELSE /\ armed' = TRUE
            /\ intervals' = setupDynamicContentWatcher
            /\ sendResizeMessage([NoOp EXCEPT !.via = "initializeResize"])
  /\ UNCHANGED <<envVars, themeVars, config, isReady, transcriptVars, timerVars, dom,
                 destroyed, readyEvents, manifest>>

\* (faulty variant) initializeResize() registering its listeners without the
\* first sendResizeMessage()
initializeResizeNoReport ==
  /\ pc = "theme"
  /\ pc' = "resize"
  /\ lastOp' = Op("initializeResize")
  /\ IF ~embedded
       THEN UNCHANGED <<armed, intervals>>
       ELSE /\ armed' = TRUE
            /\ intervals' = setupDynamicContentWatcher
  /\ UNCHANGED <<envVars, themeVars, config, isReady, transcriptVars, timerVars, dom,
                 destroyed, readyEvents, manifest, resizeVars>>

\* initializeResize(): a no-op outside a frame; else the first report and the
\* listeners.
initializeResize ==
  /\ pc = "theme"
  /\ pc' = "resize"
  /\ IF ~embedded
       THEN /\ lastOp' = Op("initializeResize")
            /\ UNCHANGED <<resizeVars, armed, intervals>>
       ELSE /\ armed' = TRUE
            /\ intervals' = setupDynamicContentWatcher
            /\ sendResizeMessage([NoOp EXCEPT !.via = "initializeResize"])
  /\ UNCHANGED <<envVars, themeVars, config, isReady, transcriptVars, timerVars, dom,
                 destroyed, readyEvents, manifest>>

\* initialize() past initializeResize(), no manifest configured: ready.
initializeReady ==
  /\ pc = "resize"
  /\ config.manifestUrl = NULL
  /\ UNCHANGED config
  /\ markReady(Op("initialize"))
  /\ UNCHANGED <<envVars, themeVars, transcriptVars, resizeVars, armed, intervals, timerVars,
                 dom, destroyed, manifest>>

\* (faulty variant) initialize() not awaiting loadManifest(): ready at once
loadManifestNoAwait ==
  /\ pc = "resize"
  /\ config.manifestUrl # NULL
  /\ pc' = "fetching"
  /\ isReady' = TRUE
  /\ readyEvents' = Sat(readyEvents, 2)
  /\ lastOp' = [Op("loadManifest") EXCEPT !.events = {"wrapper:ready"}, !.detail = config]
  /\ UNCHANGED <<envVars, themeVars, config, transcriptVars, resizeVars, armed, intervals,
                 timerVars, dom, destroyed, manifest>>

\* initialize() past initializeResize(), manifest configured: loadManifest()
\* issues the fetch and initialize() waits.
loadManifestFetch ==
  /\ pc = "resize"
  /\ config.manifestUrl # NULL
  /\ pc' = "fetching"
  /\ lastOp' = Op("loadManifest")
  /\ UNCHANGED <<envVars, themeVars, config, isReady, transcriptVars, resizeVars, armed, intervals,
                 timerVars, dom, destroyed, readyEvents, manifest>>

\* -------------------------------------------------------------- manifest
\* The manifests fetched: a full one, the full one less one field, an empty one.
FullManifest == [type |-> "video", src |-> "a.mp4", title |-> "M", transcripts |-> "list",
                 attribution |-> "attr"]
ManifestFields == {"type", "src", "title", "transcripts", "attribution"}
Manifests ==
  {FullManifest, [f \in ManifestFields |-> UNDEFINED]}
  \cup {[FullManifest EXCEPT ![f] = UNDEFINED] : f \in ManifestFields}

Truthy(x) == x \notin {"", UNDEFINED, NULL}

\* (faulty variant) the manifest's title replacing the one the options gave
applyManifestTitleWins(c, m) ==
  [c EXCEPT !.title = IF Truthy(m.title) THEN m.title ELSE c.title,
            !.type = IF c.type = "auto" THEN m.type ELSE c.type,
            !.transcripts = IF Truthy(m.transcripts) THEN m.transcripts ELSE @,
            !.attribution = IF Truthy(m.attribution) THEN m.attribution ELSE @]

\* The assignments of loadManifest() to this.config.
applyManifest(c, m) ==
  [c EXCEPT !.title = IF Truthy(c.title) THEN c.title ELSE m.title,
            !.type = IF c.type = "auto" THEN m.type ELSE c.type,
            !.transcripts = IF Truthy(m.transcripts) THEN m.transcripts ELSE @,
            !.attribution = IF Truthy(m.attribution) THEN m.attribution ELSE @]

\* The transcripts a manifest lists ("list"): English, the default, and Spanish.
Languages == {"en", "es"}
DefaultLanguage == "en"

\* The fetches in flight after loadTranscript(language): one more when the
\* language has a transcript, else the call returns at once.
loadTranscript(fs, language) == IF language \in Languages THEN Append(fs, language) ELSE fs

\* createTranscriptUI(): with transcripts and a .lo-wrapper, a new section,
\* hidden, appended to .lo-wrapper.
createTranscriptUI(d, transcripts) ==
  IF Truthy(transcripts) /\ d.built
    THEN [d EXCEPT !.transcripts = @ + 1,
                   !.ariaHidden = IF d.transcripts = 0 THEN "true" ELSE @,
                   !.ariaExpanded = IF d.transcripts = 0 THEN "false" ELSE @,
                   !.label = IF d.transcripts = 0 THEN "Show Transcript" ELSE @,
                   !.transcriptText = IF d.transcripts = 0 THEN "placeholder" ELSE @,
                   !.language = IF d.transcripts = 0 THEN DefaultLanguage ELSE @]
    ELSE d

\* What loadManifest() renders: the header when the title came from the
\* manifest, the transcript section, the attribution footer.
renderManifest(d, c, m) ==
  [createTranscriptUI(d, m.transcripts) EXCEPT
            !.header = @ \/ (Truthy(m.title) /\ c.showHeader /\ ~Truthy(c.title)),
            !.attribution = IF Truthy(m.attribution) /\ d.built THEN @ + 1 ELSE @]

\* showError(message): the panel replaces what .lo-content-inner holds; without
\* the shell there is no .lo-content-inner and nothing is rendered.
showError(d) == [d EXCEPT !.error = d.built]

\* Where initialize() ends once its catch has run: showError() asks
\* this.container for .lo-content-inner, which throws out of the catch when the
\* container is null, and the promise of initialize() rejects.
CatchOutcome == IF container = NULL THEN "rejected" ELSE "failed"

\* The catch of initialize(): showError(); the wrapper does not get ready.
initializeCatch(op) ==
  /\ pc' = CatchOutcome
  /\ dom' = showError(dom)
  /\ lastOp' = [op EXCEPT !.events = {}]
  /\ UNCHANGED <<config, isReady, readyEvents, manifest>>

\* (faulty variant) loadManifest() without its catch: the failure reaches initialize()
loadManifestRethrow(op) == initializeCatch(op)

\* The catch of loadManifest(): the failure is logged, nothing else changes,
\* and initialize() goes on to ready.
loadManifestCatch(op) ==
  /\ UNCHANGED <<config, dom, manifest>>
  /\ markReady(op)

\* The fetch rejects or answers with a status that is not ok.
manifestFetchFails ==
  /\ pc = "fetching"
  /\ \E how \in {"rejected", "not-ok"} :
       loadManifestCatch([Op("loadManifest") EXCEPT !.via = how])
  /\ UNCHANGED <<envVars, themeVars, transcriptVars, resizeVars, armed, intervals, timerVars,
                 destroyed>>

\* The fetch answers ok: loadManifest() waits for response.json().
manifestResponse ==
  /\ pc = "fetching"
  /\ pc' = "body"
  /\ lastOp' = [Op("loadManifest") EXCEPT !.via = "ok"]
  /\ UNCHANGED <<envVars, themeVars, config, isReady, transcriptVars, resizeVars, armed, intervals,
                 timerVars, dom, destroyed, readyEvents, manifest>>

\* The body parses: the manifest is applied, initialize() goes on.
manifestBody ==
  /\ pc = "body"
  /\ \E m \in Manifests :
       /\ manifest' = m
       /\ config' = applyManifest(config, m)
       /\ dom' = renderManifest(dom, config, m)
       /\ IF Truthy(m.transcripts) /\ dom.built
            THEN /\ trFetches' = loadTranscript(trFetches, DefaultLanguage)
                 /\ prevToggle' = <<>>
            ELSE UNCHANGED <<trFetches, prevToggle>>
  /\ markReady([Op("loadManifest") EXCEPT !.via = "json"])
  /\ UNCHANGED <<envVars, themeVars, transcriptVisible, resizeVars, armed, intervals, timerVars,
                 destroyed>>

\* The body is not JSON: response.json() rejects.
manifestBodyInvalid ==
  /\ pc = "body"
  /\ loadManifestCatch([Op("loadManifest") EXCEPT !.via = "invalid-json"])
  /\ UNCHANGED <<envVars, themeVars, transcriptVars, resizeVars, armed, intervals, timerVars,
                 destroyed>>

\* ------------------------------------------- steps of initialize() throw
Thrown(name) == [Op(name) EXCEPT !.via = "throws"]

\* createWrapperStructure() throws: with a null container at the assignment of
\* innerHTML, the theme already detected; or, no theme configured, inside
\* detectTheme() where window.matchMedia is not there.
createWrapperStructureThrows ==
  /\ pc = "new"
  /\ container = NULL \/ config.theme \in {"auto", ""}
  /\ currentTheme' = IF container = NULL THEN detectTheme ELSE currentTheme
  /\ initializeCatch(Thrown("createWrapperStructure"))
  /\ UNCHANGED <<envVars, prefersDark, mediaQuery, mqListeners, transcriptVars, resizeVars,
                 armed, intervals, timerVars, destroyed>>

\* setupThemeListener() throws: a MediaQueryList without addEventListener.
setupThemeListenerThrows ==
  /\ pc = "structure"
  /\ config.theme = "auto"
  /\ mediaQuery' = "mq"
  /\ initializeCatch(Thrown("setupThemeListener"))
  /\ UNCHANGED <<envVars, prefersDark, currentTheme, mqListeners, transcriptVars,
                 resizeVars, armed, intervals, timerVars, destroyed>>

\* initializeResize() throws in its first sendResizeMessage(), before any
\* listener is set.
initializeResizeThrows ==
  /\ pc = "theme"
  /\ embedded
  /\ initializeCatch(Thrown("initializeResize"))
  /\ UNCHANGED <<envVars, themeVars, transcriptVars, resizeVars, armed, intervals, timerVars,
                 destroyed>>

\* dispatchEvent('wrapper:ready') throws (no CustomEvent constructor):
\* isReady is set already.
readyDispatchThrows ==
  /\ pc = "resize"
  /\ config.manifestUrl = NULL
  /\ isReady' = TRUE
  /\ pc' = CatchOutcome
  /\ dom' = showError(dom)
  /\ lastOp' = Thrown("initialize")
  /\ UNCHANGED <<envVars, themeVars, config, transcriptVars, resizeVars, armed, intervals, timerVars,
                 destroyed, readyEvents, manifest>>

\* ------------------------------------------- calls by plugins and the host
Called == [NoOp EXCEPT !.via = "call"]
restOfResize == <<envVars, themeVars, initVars, transcriptVars, dom, destroyed>>

callSendResizeMessage ==
  /\ Idle
  /\ sendResizeMessage(Called)
  /\ UNCHANGED <<restOfResize, timerVars>>

callForceResize ==
  /\ Idle
  /\ forceResize(Called)
  /\ UNCHANGED <<restOfResize, timerVars>>

callDebouncedResize ==
  /\ Idle
  /\ debouncedResizeBody
  /\ lastOp' = [Called EXCEPT !.name = "debouncedResize"]
  /\ UNCHANGED <<restOfResize, resizeVars>>

callTriggerResize ==
  /\ Idle
  /\ triggerResizeBody
  /\ lastOp' = [Called EXCEPT !.name = "triggerResize"]
  /\ UNCHANGED <<restOfResize, resizeVars>>

\* What two toggleTranscript() calls are to restore.
TranscriptSnapshot ==
  <<transcriptVisible, dom.ariaHidden, dom.ariaExpanded, dom.label, dom.transcripts>>

\* toggleTranscript(): the flag flips; without a transcript section nothing
\* else; with one, its ARIA state and label follow the flag, the analytics
\* event is dispatched and triggerResize() called.
toggleTranscript ==
  /\ Idle
  /\ transcriptVisible' = ~transcriptVisible
  /\ prevToggle' = IF dom.transcripts = 0 THEN <<>> ELSE TranscriptSnapshot
  /\ LET op == [Called EXCEPT !.name = "toggleTranscript"]
     IN IF dom.transcripts = 0
          THEN /\ lastOp' = op
               /\ UNCHANGED <<timerVars, dom>>
          ELSE /\ triggerResizeBody
               /\ dom' = [dom EXCEPT
                     !.ariaHidden = IF transcriptVisible' THEN "false" ELSE "true",
                     !.ariaExpanded = IF transcriptVisible' THEN "true" ELSE "false",
                     !.label = IF transcriptVisible' THEN "Hide Transcript"
                                                     ELSE "Show Transcript"]
               /\ lastOp' = [op EXCEPT !.events = {"analytics:track"}]
  /\ UNCHANGED <<envVars, themeVars, initVars, resizeVars, destroyed, trFetches>>

\* ------------------------------------- listeners set by initializeResize()
Event == [NoOp EXCEPT !.via = "event"]

\* window 'load' and the capturing document 'load': sendResizeMessage()
onLoad ==
  /\ Idle /\ armed
  /\ sendResizeMessage(Event)
  /\ UNCHANGED <<restOfResize, timerVars>>

\* window 'resize', ResizeObserver, MutationObserver: debouncedResize()
onResize ==
  /\ Idle /\ armed
  /\ debouncedResizeBody
  /\ lastOp' = [Event EXCEPT !.name = "debouncedResize"]
  /\ UNCHANGED <<restOfResize, resizeVars>>

\* The 500 ms width poll: debouncedResize() when the width differs.
onWidthPoll ==
  /\ Idle /\ armed
  /\ \E w \in Widths :
       IF w # lastWidth
         THEN /\ debouncedResizeBody
              /\ lastOp' = [Event EXCEPT !.name = "debouncedResize", !.w = w]
         ELSE /\ lastOp' = [Event EXCEPT !.name = "widthPoll", !.w = w]
              /\ UNCHANGED timerVars
  /\ UNCHANGED <<restOfResize, resizeVars>>

\* Inbound window messages: no data (event.data falsy), an object without the
\* fields looked at, the four shapes taken for an H5P resize request, one that
\* is another protocol's, and shapes whose type, context or subject is not a
\* string.  type, action and context are only compared with ===, so a value
\* that is not a string is written as a token no string equals; subjectType
\* is typeof data.subject, the string itself in subject.
NotAString == "42"
NoMessageData == [falsy |-> FALSE, type |-> UNDEFINED, action |-> UNDEFINED,
                  context |-> UNDEFINED, subject |-> <<>>, subjectType |-> "undefined"]
Payloads ==
  {[NoMessageData EXCEPT !.falsy = TRUE], NoMessageData,
   [NoMessageData EXCEPT !.type = "h5p"],
   [NoMessageData EXCEPT !.action = "resize"],
   [NoMessageData EXCEPT !.context = "h5p"],
   [NoMessageData EXCEPT !.subject = <<"x">> \o S_h5p, !.subjectType = "string"],
   [NoMessageData EXCEPT !.type = "hello", !.subject = <<"l", "t", "i">>,
                         !.subjectType = "string"],
   [NoMessageData EXCEPT !.type = NotAString, !.context = NotAString],
   [NoMessageData EXCEPT !.subjectType = "number"],
   [NoMessageData EXCEPT !.type = "h5p", !.subjectType = "number"]}

\* The test of the message listener, left to right: "true", "false", or
\* "TypeError" when it comes to data.subject.includes on a subject that is
\* truthy and has no includes method.
isH5PResize(data) ==
  IF \/ data.type = "h5p"
     \/ data.action = "resize"
     \/ (data.context # UNDEFINED /\ data.context = "h5p")
    THEN "true"
  ELSE IF data.subjectType = "undefined" THEN "false"
  ELSE IF data.subjectType # "string" THEN "TypeError"
  ELSE IF includes(data.subject, S_h5p) THEN "true"
  ELSE "false"

\* window 'message': debouncedResize() for an H5P resize request; an
\* exception the listener does not catch is reported as an 'error' event.
onMessage ==
  /\ Idle /\ armed
  /\ \E data \in Payloads :
       IF ~data.falsy /\ isH5PResize(data) = "true"
         THEN /\ debouncedResizeBody
              /\ lastOp' = [Event EXCEPT !.name = "debouncedResize", !.via = "message"]
         ELSE /\ lastOp' = [Event EXCEPT !.name = "onMessage", !.via = "message",
                                         !.events = IF ~data.falsy
                                                       /\ isH5PResize(data) = "TypeError"
                                                      THEN {"error"} ELSE {}]
              /\ UNCHANGED timerVars
  /\ UNCHANGED <<restOfResize, resizeVars>>

\* ---------------------------------------------------------------- timers
Due == {i \in 1..Len(timers) : timers[i].left = 0}
Without(ts, i) == SubSeq(ts, 1, i - 1) \o SubSeq(ts, i + 1, Len(ts))
HasDebounce(ts) == \E i \in 1..Len(ts) : ts[i].kind = "debounce"

\* The time-out of debouncedResize() fires: sendResizeMessage()
debounceTimerFires ==
  /\ Idle
  /\ Due # {}
  /\ LET i == Min(Due) IN
       /\ timers[i].kind = "debounce"
       /\ timers' = Without(timers, i)
       /\ burstCalls' = IF HasDebounce(Without(timers, i)) THEN burstCalls ELSE 0
       /\ sinceCall' = IF HasDebounce(Without(timers, i)) THEN sinceCall ELSE 0
  /\ sendResizeMessage([NoOp EXCEPT !.via = "debounce", !.burst = burstCalls,
                                     !.elapsed = sinceCall,
                                     !.stale = timers[Min(Due)].stale])
  /\ UNCHANGED <<restOfResize, resizeTimer>>

\* The time-out of triggerResize() fires: sendResizeMessage()
triggerTimerFires ==
  /\ Idle
  /\ Due # {}
  /\ LET i == Min(Due) IN
       /\ timers[i].kind = "trigger"
       /\ timers' = Without(timers, i)
  /\ sendResizeMessage([NoOp EXCEPT !.via = "trigger", !.stale = timers[Min(Due)].stale])
  /\ UNCHANGED <<restOfResize, burstCalls, sinceCall, resizeTimer>>

\* 50 ms pass; a time-out that is due runs before more time passes.
Tick ==
  /\ Idle
  /\ timers # <<>>
  /\ Due = {}
  /\ timers' = [i \in 1..Len(timers) |-> [timers[i] EXCEPT !.left = @ - 1]]
  /\ sinceCall' = IF DebouncePending THEN Sat(sinceCall, DebounceDelay) ELSE 0
  /\ lastOp' = Op("tick")
  /\ UNCHANGED <<restOfResize, resizeVars, burstCalls, resizeTimer>>

\* ------------------------------------------------------ polling intervals
\* (faulty variant) the interval cleared one firing late
intervalDoneLate(count, max) == count > max

\* checkCount >= maxChecks, fallbackCount >= fallbackMax: clearInterval()
intervalDone(count, max) == count >= max

\* Both intervals have a period of 500 ms and the dynamic-content one is set
\* first, so in every period it fires first: it is its turn when the fallback
\* one is not running or has fired as often.
dynamicCheckerFires ==
  /\ Idle
  /\ intervals.dynamicChecker = "set"
  /\ intervals.fallbackChecker = "set" => intervals.fallbackCount = intervals.checkCount
  /\ sendResizeMessage([NoOp EXCEPT !.via = "dynamicChecker"])
  /\ intervals' = [intervals EXCEPT
                     !.checkCount = @ + 1,
                     !.dynamicChecker = IF intervalDone(intervals.checkCount + 1, maxChecks)
                                          THEN "cleared" ELSE @]
  /\ UNCHANGED <<envVars, themeVars, config, pc, isReady, armed, readyEvents, manifest,
                 transcriptVars, dom, destroyed, timerVars>>

fallbackCheckerFires ==
  /\ Idle
  /\ intervals.fallbackChecker = "set"
  /\ intervals.fallbackCount < intervals.checkCount
  /\ sendResizeMessage([NoOp EXCEPT !.via = "fallbackChecker"])
  /\ intervals' = [intervals EXCEPT
                     !.fallbackCount = @ + 1,
                     !.fallbackChecker = IF intervalDone(intervals.fallbackCount + 1, fallbackMax)
                                           THEN "cleared" ELSE @]
  /\ UNCHANGED <<envVars, themeVars, config, pc, isReady, armed, readyEvents, manifest,
                 transcriptVars, dom, destroyed, timerVars>>

\* ------------------------------------------------------ transcript fetches
\* The language selector changes to a language it offers:
\* loadTranscript(e.target.value)
onLanguageChange ==
  /\ dom.transcripts > 0
  /\ Len(trFetches) < MaxFetches
  /\ \E language \in Languages :
       /\ dom' = [dom EXCEPT !.language = language]
       /\ trFetches' = loadTranscript(trFetches, language)
       /\ lastOp' = [Event EXCEPT !.name = "loadTranscript"]
  /\ UNCHANGED <<envVars, themeVars, initVars, transcriptVisible, prevToggle, resizeVars,
                 timerVars, destroyed>>

\* (faulty variant) the transcript failure shown as the wrapper's error panel
showTranscriptErrorInContent(d) == [d EXCEPT !.error = d.built]

\* showTranscriptError(): the notice replaces what .lo-transcript-text holds.
showTranscriptError(d) ==
  IF d.transcripts > 0 THEN [d EXCEPT !.transcriptText = "error"] ELSE d

\* (faulty variant) an updateTranscriptDisplay() that fills the panel once only
updateTranscriptDisplayOnce(d, content) ==
  IF d.transcripts > 0 /\ content # "" /\ d.transcriptText = "placeholder"
    THEN [d EXCEPT !.transcriptText = content] ELSE d

\* updateTranscriptDisplay(content): the text, unless it is empty.  The text of
\* a language's transcript is written as the language.
updateTranscriptDisplay(d, content) ==
  IF d.transcripts > 0 /\ content # "" THEN [d EXCEPT !.transcriptText = content] ELSE d

\* A transcript fetch rejects or answers not-ok: the catch of loadTranscript()
transcriptFetchFails ==
  /\ \E i \in 1..Len(trFetches), how \in {"rejected", "not-ok"} :
       /\ trFetches' = Without(trFetches, i)
       /\ lastOp' = [Op("loadTranscript") EXCEPT !.via = how]
  /\ dom' = showTranscriptError(dom)
  /\ UNCHANGED <<envVars, themeVars, initVars, transcriptVisible, prevToggle, resizeVars,
                 timerVars, destroyed>>

\* A transcript fetch answers ok with its text, which may be empty.
transcriptFetchOk ==
  /\ \E i \in 1..Len(trFetches), empty \in BOOLEAN :
       /\ trFetches' = Without(trFetches, i)
       /\ dom' = updateTranscriptDisplay(dom, IF empty THEN "" ELSE trFetches[i])
       /\ lastOp' = [Op("loadTranscript") EXCEPT !.via = IF empty THEN "empty" ELSE "text"]
  /\ UNCHANGED <<envVars, themeVars, initVars, transcriptVisible, prevToggle, resizeVars,
                 timerVars, destroyed>>

\* ---------------------------------------------------------------- destroy
\* The listeners after removeEventListener('change', f)
removeEventListener(ls, f) == ls \ {f}

\* (faulty variant) destroy() that leaves the timer
destroyTimersKept(ts) == ts

\* The timers destroy() leaves were set before it.
Outlived(ts) == [i \in 1..Len(ts) |-> [ts[i] EXCEPT !.stale = TRUE]]

\* The timers after destroy()
destroyTimers(ts) == IF resizeTimer # NULL THEN clearTimeout(ts) ELSE ts

destroy ==
  /\ Idle
  /\ destroyed' = TRUE
  /\ mqListeners' = IF mediaQuery # NULL
                      THEN removeEventListener(mqListeners, handleThemeChange)
                      ELSE mqListeners
  /\ timers' = Outlived(destroyTimers(timers))
  /\ burstCalls' = IF HasDebounce(destroyTimers(timers)) THEN burstCalls ELSE 0
  /\ sinceCall' = IF HasDebounce(destroyTimers(timers)) THEN sinceCall ELSE 0
  /\ isReady' = FALSE
  /\ lastOp' = [Op("destroy") EXCEPT !.via = "call", !.burst = burstCalls]
  /\ UNCHANGED <<envVars, prefersDark, currentTheme, mediaQuery, config, pc, armed, intervals, readyEvents,
                 transcriptVars, resizeVars, dom, resizeTimer, manifest>>

\* ------------------------------------------------- system theme preference
\* applyTheme(theme): the class of .lo-wrapper, the state, the event.
applyTheme(theme) ==
  IF dom.built
    THEN /\ dom' = [dom EXCEPT !.themeClass = theme]
         /\ currentTheme' = theme
         /\ lastOp' = [Op("applyTheme") EXCEPT !.via = "event", !.events = {"theme:change"}]
    ELSE /\ lastOp' = [Op("applyTheme") EXCEPT !.via = "event"]
         /\ UNCHANGED <<dom, currentTheme>>

\* prefers-color-scheme changes; the MediaQueryList tells its listeners.
systemDarkChange ==
  /\ Idle
  /\ prefersDark' = ~prefersDark
  /\ LET newTheme == IF prefersDark' THEN "dark" ELSE "light" IN
       IF ThemeListener \in mqListeners /\ newTheme # currentTheme
         THEN applyTheme(newTheme)
         ELSE /\ lastOp' = [Op("mediaQueryChange") EXCEPT !.via = "event"]
              /\ UNCHANGED <<dom, currentTheme>>
  /\ UNCHANGED <<envVars, mediaQuery, mqListeners, initVars, transcriptVars, resizeVars,
                 timerVars, destroyed>>

\* ------------------------------------------------- videoPlugin, h5pPlugin
\* plugin: which load() runs (name), where it waits (pc), its src, how its
\* promise settled (result), whether it rendered into .lo-content-inner,
\* whether a Plyr player was made.  page: window.Plyr; the Plyr stylesheet link
\* and script and the H5P resizer script, each absent, present before the
\* call, pending, loaded or error; the ticks left of the 5 s time-out and of
\* the 200 ms wait, -1 when not set.
wrapperVars == <<themeVars, initVars, transcriptVars, resizeVars, timerVars, dom, destroyed>>
pageVars == <<embedded, container, prefersContrast, h5pContent, detectVars, measureVars,
              auxVars>>

VideoSrcs == {"", "b.mp4", "https://youtube.com/watch?v=1"}
H5PSrcs == {"https://h5p.org/embed/1"}

\* The Plyr script is appended and load() waits for onload, onerror or 5 s.
awaitPlyrScript(pg) == [pg EXCEPT !.plyrJs = "pending", !.timeout = PlyrTimeout]

\* load() waits 200 ms for the DOM.
awaitDom(pg) == [pg EXCEPT !.timeout = -1, !.domWait = DomReadyDelay]

\* videoPlugin.load(wrapper, {src}): throws without a src; renders the video
\* element; then, inside its try, with no window.Plyr: appends the stylesheet
\* unless a plyr.css link is there and waits for it, else goes on to the
\* script; with window.Plyr: the 200 ms wait.
videoPluginLoad ==
  /\ pc = "ready" /\ plugin.name = "none"
  /\ \E src \in VideoSrcs :
       IF src = ""
         THEN /\ plugin' = [plugin EXCEPT !.name = "video", !.pc = "done",
                                           !.result = "rejected"]
              /\ UNCHANGED page
         ELSE IF page.Plyr
           THEN /\ plugin' = [plugin EXCEPT !.name = "video", !.src = src,
                                             !.rendered = TRUE, !.pc = "awaitDom"]
                /\ page' = awaitDom(page)
         ELSE IF page.plyrCss = "absent"
           THEN /\ plugin' = [plugin EXCEPT !.name = "video", !.src = src,
                                             !.rendered = TRUE, !.pc = "awaitCss"]
                /\ page' = [page EXCEPT !.plyrCss = "pending"]
           ELSE /\ plugin' = [plugin EXCEPT !.name = "video", !.src = src,
                                             !.rendered = TRUE, !.pc = "awaitScript"]
                /\ page' = awaitPlyrScript(page)
  /\ lastOp' = Op("videoPlugin.load")
  /\ UNCHANGED <<pageVars, wrapperVars>>

\* link.onload or link.onerror: load() goes on to the script.
plyrCssAnswers ==
  /\ plugin.pc = "awaitCss"
  /\ \E how \in {"loaded", "error"} :
       page' = awaitPlyrScript([page EXCEPT !.plyrCss = how])
  /\ plugin' = [plugin EXCEPT !.pc = "awaitScript"]
  /\ lastOp' = Op("videoPlugin.load")
  /\ UNCHANGED <<pageVars, wrapperVars>>

\* script.onload or script.onerror while load() waits: the time-out is
\* cleared; a loaded script defines window.Plyr.
plyrScriptAnswers ==
  /\ plugin.pc = "awaitScript"
  /\ \E how \in {"loaded", "error"} :
       page' = awaitDom([page EXCEPT !.plyrJs = how, !.Plyr = (how = "loaded")])
  /\ plugin' = [plugin EXCEPT !.pc = "awaitDom"]
  /\ lastOp' = Op("videoPlugin.load")
  /\ UNCHANGED <<pageVars, wrapperVars>>

\* The 5 s time-out fires: load() goes on without Plyr, the script still pending.
plyrTimeoutFires ==
  /\ plugin.pc = "awaitScript"
  /\ page.timeout = 0
  /\ page' = awaitDom(page)
  /\ plugin' = [plugin EXCEPT !.pc = "awaitDom"]
  /\ lastOp' = Op("videoPlugin.load")
  /\ UNCHANGED <<pageVars, wrapperVars>>

\* The script answers after the time-out has fired.
plyrScriptAnswersLate ==
  /\ plugin.pc # "awaitScript"
  /\ page.plyrJs = "pending"
  /\ \E how \in {"loaded", "error"} :
       page' = [page EXCEPT !.plyrJs = how, !.Plyr = (how = "loaded")]
  /\ lastOp' = Op("script")
  /\ UNCHANGED <<pageVars, wrapperVars, plugin>>

\* The 200 ms are over: with window.Plyr the player is made, new Plyr()
\* throwing or not (caught); load() resolves.
videoPluginSettles ==
  /\ plugin.pc = "awaitDom"
  /\ page.domWait = 0
  /\ page' = [page EXCEPT !.domWait = -1]
  /\ \E made \in BOOLEAN :
       plugin' = [plugin EXCEPT !.pc = "done", !.result = "resolved",
                                !.player = (page.Plyr /\ made)]
  /\ lastOp' = Op("videoPlugin.load")
  /\ UNCHANGED <<pageVars, wrapperVars>>

\* 50 ms pass while load() waits on a time-out.
pluginTick ==
  /\ page.timeout > 0 \/ page.domWait > 0
  /\ page' = [page EXCEPT !.timeout = IF @ > 0 THEN @ - 1 ELSE @,
                          !.domWait = IF @ > 0 THEN @ - 1 ELSE @]
  /\ lastOp' = Op("tick")
  /\ UNCHANGED <<pageVars, wrapperVars, plugin>>

\* The catch of loadH5PResizer(): the failure is logged and h5pPlugin.load
\* goes on to render the iframe and returns it.
resizerFailed(pl) == [pl EXCEPT !.pc = "done", !.rendered = TRUE, !.result = "resolved"]

\* h5pPlugin.load(wrapper, {src}): loadH5PResizer() returns at once when the
\* resizer is there, else appends the script and waits for it.
h5pPluginLoad ==
  /\ pc = "ready" /\ plugin.name = "none"
  /\ \E src \in H5PSrcs :
       IF page.resizer = "present"
         THEN /\ plugin' = [plugin EXCEPT !.name = "h5p", !.src = src, !.pc = "done",
                                           !.rendered = TRUE, !.result = "resolved"]
              /\ UNCHANGED page
         ELSE /\ plugin' = [plugin EXCEPT !.name = "h5p", !.src = src,
                                           !.pc = "awaitResizer"]
              /\ page' = [page EXCEPT !.resizer = "pending"]
  /\ lastOp' = Op("h5pPlugin.load")
  /\ UNCHANGED <<pageVars, wrapperVars>>

\* script.onload or script.onerror of the resizer
resizerAnswers ==
  /\ plugin.pc = "awaitResizer"
  /\ \E how \in {"loaded", "error"} :
       /\ page' = [page EXCEPT !.resizer = how]
       /\ plugin' = IF how = "error" THEN resizerFailed(plugin)
                     ELSE [plugin EXCEPT !.pc = "done", !.rendered = TRUE,
                                         !.result = "resolved"]
  /\ lastOp' = Op("h5pPlugin.load")
  /\ UNCHANGED <<pageVars, wrapperVars>>

\* ------------------------------------------------------------------ spec
\* initialize() without a manifest, then the resize negotiation and destroy()
Next ==
  \/ createWrapperStructure
  \/ setupThemeListener
  \/ initializeResize
  \/ initializeReady
  \/ callSendResizeMessage
  \/ callForceResize
  \/ callDebouncedResize
  \/ callTriggerResize
  \/ toggleTranscript
  \/ onLoad
  \/ onResize
  \/ onWidthPoll
  \/ onMessage
  \/ debounceTimerFires
  \/ triggerTimerFires
  \/ Tick
  \/ destroy

Spec == Init /\ [][Next]_vars

\* initialize() with its manifest, the transcript toggle, the system theme
\* preference and destroy()
NextLoad ==
  \/ createWrapperStructure
  \/ setupThemeListener
  \/ initializeResize
  \/ initializeReady
  \/ loadManifestFetch
  \/ manifestFetchFails
  \/ manifestResponse
  \/ manifestBody
  \/ manifestBodyInvalid
  \/ toggleTranscript
  \/ onLanguageChange
  \/ transcriptFetchFails
  \/ transcriptFetchOk
  \/ triggerTimerFires
  \/ Tick
  \/ destroy
  \/ systemDarkChange

SpecLoad == InitLoad /\ [][NextLoad]_vars

\* initialize() alone, framed or not, with or without a container, each of
\* its steps completing or throwing
InitInitialize ==
  /\ embedded \in BOOLEAN
  /\ container \in {"element", NULL}
  /\ config \in {BaseConfig, [BaseConfig EXCEPT !.theme = "auto"]}
                \cup {[c EXCEPT !.theme = "auto"] : c \in ManifestConfigs}
  /\ prefersContrast = FALSE
  /\ prefersDark \in BOOLEAN
  /\ InitState
  /\ dtSrc = <<>>
  /\ dtBase = <<>>
  /\ dtResult = "unset"
  /\ h5pContent = FALSE
  /\ NoMeasure
  /\ NoPluginLoad

NextInitialize ==
  \/ createWrapperStructure
  \/ createWrapperStructureThrows
  \/ setupThemeListener
  \/ setupThemeListenerThrows
  \/ initializeResize
  \/ initializeResizeThrows
  \/ initializeReady
  \/ readyDispatchThrows
  \/ loadManifestFetch
  \/ manifestFetchFails
  \/ manifestResponse
  \/ manifestBody
  \/ manifestBodyInvalid

SpecInitialize == InitInitialize /\ [][NextInitialize]_vars

\* ----------------------------------------- detectType as a pure function
\* The inputs are drawn at the start; the one action applies the function.
InitDetect ==
  /\ embedded = FALSE
  /\ container = "element"
  /\ config = BaseConfig
  /\ prefersContrast = FALSE
  /\ prefersDark = FALSE
  /\ InitState
  /\ dtSrc \in SrcInputs
  /\ dtBase \in PageHosts
  /\ dtResult = "unset"
  /\ h5pContent = FALSE
  /\ NoMeasure
  /\ NoPluginLoad

callDetectType ==
  /\ dtResult = "unset"
  /\ dtResult' = detectType(dtSrc, dtBase)
  /\ UNCHANGED <<embedded, container, prefersDark, prefersContrast, config, pc, isReady,
                 currentTheme, transcriptVisible, prevToggle, trFetches, lastHeight, lastWidth, mediaQuery, mqListeners, armed, intervals,
                 timers, dom, destroyed, burstCalls, sinceCall, resizeTimer, lastPost, lastMessage,
                 readyEvents, lastOp, manifest, dtSrc, dtBase, h5pContent, measureVars,
                 pluginVars, auxVars>>

\* ------------------------------------------------------------ getPlugin
\* The loaders are named by the plugin they belong to.  The types asked for:
\* the six of the registry, 'auto', an unknown one, none, and two names every
\* object inherits from Object.prototype.
PluginTypes ==
  {"video", "model", "pdf", "h5p", "supersplat", "iframe", "auto", "audio", UNDEFINED,
   "constructor", "__proto__"}

\* pluginLoaders of the table-based registry: what each loader() resolves to
pluginLoaders ==
  [video |-> "videoPlugin.load", model |-> "modelPlugin.load", pdf |-> "iframePlugin.load",
   h5p |-> "h5pPlugin.load", supersplat |-> "superSplatPlugin.load",
   iframe |-> "iframePlugin.load"]

\* pluginLoaders[type] for a name the object literal does not define: the
\* property inherited from Object.prototype; constructor is Object, which
\* called returns {}; __proto__ is an object, and calling it throws.
inheritedLoader(type) ==
  CASE type = "constructor" -> "{}"
    [] type = "__proto__" -> "TypeError"
    [] OTHER -> UNDEFINED

\* getPlugin(type) of src/unnamed/part_002:
\* (pluginLoaders[type] || pluginLoaders.iframe)()
getPluginTable(type) ==
  IF type \in DOMAIN pluginLoaders THEN pluginLoaders[type]
  ELSE IF inheritedLoader(type) # UNDEFINED THEN inheritedLoader(type)
  ELSE pluginLoaders.iframe

\* getPlugin(type) of src/unnamed/part_003: a switch, case 'iframe' and
\* default together
getPluginSwitch(type) ==
  CASE type = "video" -> "videoPlugin.load"
    [] type = "model" -> "modelPlugin.load"
    [] type = "pdf" -> "iframePlugin.load"
    [] type = "h5p" -> "h5pPlugin.load"
    [] type = "supersplat" -> "superSplatPlugin.load"
    [] OTHER -> "iframePlugin.load"

callGetPlugin ==
  /\ registry.type = "unset"
  /\ \E type \in PluginTypes :
       registry' = [type |-> type, table |-> getPluginTable(type),
                    switch |-> getPluginSwitch(type)]
  /\ UNCHANGED <<embedded, container, prefersContrast, h5pContent, detectVars, measureVars,
                 pluginVars, delivery, wrapperVars, lastOp>>

NextDetect == callDetectType \/ callGetPlugin

SpecDetect == InitDetect /\ [][NextDetect]_vars

\* ------------------------------------------------ the plugins' load()
\* An unframed wrapper gets ready, then one plugin loads on a page where
\* window.Plyr, the plyr.css link and the H5P resizer may be there already.
InitPlugin ==
  /\ embedded = FALSE
  /\ container = "element"
  /\ config = BaseConfig
  /\ prefersContrast = FALSE
  /\ prefersDark = FALSE
  /\ InitState
  /\ dtSrc = <<>> /\ dtBase = <<>> /\ dtResult = "unset"
  /\ h5pContent = FALSE
  /\ NoMeasure
  /\ plugin = NoPlugin
  /\ page \in {[BarePage EXCEPT !.Plyr = p, !.plyrCss = c, !.resizer = r] :
                  p \in BOOLEAN, c \in {"absent", "present"}, r \in {"absent", "present"}}

\* What runs without waiting for the network: the steps of initialize(), the
\* time-outs and the passing of time.
PluginProgress ==
  \/ createWrapperStructure
  \/ setupThemeListener
  \/ initializeResize
  \/ initializeReady
  \/ plyrTimeoutFires
  \/ videoPluginSettles
  \/ pluginTick

NextPlugin ==
  \/ PluginProgress
  \/ videoPluginLoad
  \/ h5pPluginLoad
  \/ plyrCssAnswers
  \/ plyrScriptAnswers
  \/ plyrScriptAnswersLate
  \/ resizerAnswers

\* The host calls a plugin or not and the network answers or not; the rest
\* is not held up.
SpecPlugin == InitPlugin /\ [][NextPlugin]_vars /\ WF_vars(PluginProgress)

\* -------------------------------------------- the polling after initialize()
\* A page, framed or not, showing H5P content or not: initialize(), then the
\* intervals it set, and destroy().
InitPoll ==
  /\ embedded \in BOOLEAN
  /\ h5pContent \in BOOLEAN
  /\ container = "element"
  /\ config = BaseConfig
  /\ prefersContrast = FALSE
  /\ prefersDark = FALSE
  /\ InitState
  /\ dtSrc = <<>> /\ dtBase = <<>> /\ dtResult = "unset"
  /\ NoMeasure
  /\ NoPluginLoad

\* What the event loop runs when due
PollProgress ==
  \/ createWrapperStructure
  \/ setupThemeListener
  \/ initializeResize
  \/ initializeReady
  \/ dynamicCheckerFires
  \/ fallbackCheckerFires

NextPoll ==
  \/ PollProgress
  \/ destroy

SpecPoll == InitPoll /\ [][NextPoll]_vars /\ WF_vars(PollProgress)

\* ----------------------------------- getContentHeight as a pure function
InitMeasure ==
  /\ embedded = FALSE
  /\ container = "element"
  /\ config = BaseConfig
  /\ prefersContrast = FALSE
  /\ prefersDark = FALSE
  /\ InitState
  /\ dtSrc = <<>> /\ dtBase = <<>> /\ dtResult = "unset"
  /\ h5pContent = FALSE
  /\ ghInput \in Layouts
  /\ ghResult = -1
  /\ NoPluginLoad

callGetContentHeight ==
  /\ ghResult = -1
  /\ ghResult' = getContentHeight(ghInput)
  /\ UNCHANGED <<embedded, container, prefersContrast, h5pContent, detectVars, ghInput,
                 pluginVars, auxVars, wrapperVars, lastOp>>

NextMeasure == callGetContentHeight

SpecMeasure == InitMeasure /\ [][NextMeasure]_vars

\* ------------------------------------------------------- dispatchEvent
MaxDispatches == 2   \* dispatchEvent() calls followed
EventNames == {"wrapper:ready", "theme:change", "analytics:track"}

\* node.dispatchEvent(event) of an event made with bubbles: true: the nodes
\* whose listeners it reaches, the target and, in the document, its ancestors.
eventPath(target, attached) ==
  IF target = "container"
    THEN {"container"} \cup (IF attached THEN {"document"} ELSE {})
    ELSE {"document"}

deliver(d, target) ==
  [d EXCEPT !.heard = [n \in Nodes |->
                         IF n \in eventPath(target, d.attached) \cap d.listeners
                           THEN @[n] + 1 ELSE @[n]]]

\* dispatchEvent(eventName, detail): one bubbling CustomEvent, dispatched on
\* the container if there is one, then on document.
dispatchEvent(d, c) ==
  [deliver(IF c # NULL THEN deliver(d, "container") ELSE d, "document")
     EXCEPT !.dispatched = @ + 1]

restOfEvents == <<embedded, container, prefersContrast, h5pContent, detectVars, measureVars,
            pluginVars, registry, wrapperVars>>

\* The host page puts the container into the document.
hostAppendsContainer ==
  /\ container # NULL /\ ~delivery.attached
  /\ delivery' = [delivery EXCEPT !.attached = TRUE]
  /\ lastOp' = [Event EXCEPT !.name = "appendChild"]
  /\ UNCHANGED restOfEvents

\* The host page listens on the container or on document.
hostAddsListener ==
  /\ \E n \in Nodes \ delivery.listeners :
       /\ n = "container" => container # NULL
       /\ delivery' = [delivery EXCEPT !.listeners = @ \cup {n}]
  /\ lastOp' = [Event EXCEPT !.name = "addEventListener"]
  /\ UNCHANGED restOfEvents

callDispatchEvent ==
  /\ delivery.dispatched < MaxDispatches
  /\ \E name \in EventNames :
       lastOp' = [Op("dispatchEvent") EXCEPT !.via = "call", !.events = {name}]
  /\ delivery' = dispatchEvent(delivery, container)
  /\ UNCHANGED restOfEvents

InitEvents ==
  /\ embedded = FALSE
  /\ container \in {"element", NULL}
  /\ config = BaseConfig
  /\ prefersContrast = FALSE
  /\ prefersDark = FALSE
  /\ InitState
  /\ dtSrc = <<>> /\ dtBase = <<>> /\ dtResult = "unset"
  /\ h5pContent = FALSE
  /\ NoMeasure
  /\ NoPluginLoad

NextEvents == hostAppendsContainer \/ hostAddsListener \/ callDispatchEvent

SpecEvents == InitEvents /\ [][NextEvents]_vars

\* ================================================================ claims
DebounceTimers == {i \in 1..Len(timers) : timers[i].kind = "debounce"}

\* C1: framed, one call of sendResizeMessage() posts a message if and only if
\* the measured height differs from lastHeight by more than 1 or the measured
\* width differs from lastWidth.
C1_SendIffChanged ==
  [][(embedded /\ lastOp'.name = "sendResizeMessage")
       => (lastOp'.posted <=> (\/ lastOp'.h - lastHeight > 1
                               \/ lastHeight - lastOp'.h > 1
                               \/ lastOp'.w # lastWidth))]_vars

\* a call that measured a height 1 off the stored one, at the stored width
C1_Witness ==
  /\ embedded /\ lastOp.name = "sendResizeMessage" /\ ~lastOp.posted
  /\ lastOp.h = lastHeight + 1 /\ lastOp.w = lastWidth

\* C2: the debouncedResize() calls of one burst leave exactly one timer
\* pending, due 100 ms after the last call; when it fires, one
\* sendResizeMessage() cycle runs for the whole burst, 100 ms after its last
\* call, and no timer is left.
C2_DebounceOneCycle ==
  /\ burstCalls > 0 =>
       /\ Cardinality(DebounceTimers) = 1
       /\ \A i \in DebounceTimers : timers[i].left = DebounceDelay - sinceCall
  /\ burstCalls = 0 => DebounceTimers = {}
  /\ lastOp.via = "debounce" =>
       /\ lastOp.name = "sendResizeMessage"
       /\ lastOp.burst >= 1
       /\ lastOp.elapsed = DebounceDelay
       /\ DebounceTimers = {}

\* the cycle that ends a burst of at least two calls
C2_Witness == lastOp.via = "debounce" /\ lastOp.burst >= 2

\* C3: framed, forceResize() posts on every call, also when it measures what
\* is stored, and leaves lastHeight and lastWidth at what it measured.
C3_ForceAlwaysSends ==
  (embedded /\ lastOp.name = "forceResize")
    => /\ lastOp.posted
       /\ lastHeight = lastOp.h
       /\ lastWidth = lastOp.w
       /\ lastPost = [h |-> lastOp.h, w |-> lastOp.w, posted |-> TRUE]

\* forceResize() measured exactly the stored height and width, and posted
C3_Witness ==
  embedded /\ lastOp.name = "forceResize" /\ lastOp.same /\ lastOp.posted

\* C4 (as claimed): once a manifest is loaded, the src and the type it supplies
\* are the configuration's src and type, whatever the options gave.
C4_ProtectedFields ==
  /\ (manifest.src # UNDEFINED => config.src = manifest.src)
  /\ (manifest.type # UNDEFINED => config.type = manifest.type)

ContentTypes == {"video", "model", "pdf", "h5p", "iframe", "supersplat"}
dtExt == toLowerCase(lastPart(dtSrc))
dtUrl == parseURL(dtSrc, dtBase)
dtVideoHost ==
  dtUrl.ok /\ (includes(dtUrl.hostname, S_youtube) \/ includes(dtUrl.hostname, S_vimeo))
dtH5PMarker ==
  includes(dtSrc, S_h5p) \/ (dtUrl.ok /\ includes(dtUrl.hostname, S_h5porg))
dtRecognizedExt == dtExt \in VideoExts \cup ModelExts \cup {S_pdf, S_ply}

\* C5 (as claimed): the extension alone decides: video for mp4, webm, ogg,
\* mov, avi; model for glb, gltf, obj, fbx, 3ds; supersplat for ply; pdf for
\* pdf; iframe when there is no recognized extension, video hostname or h5p
\* marker; always one of the content types.
C5_ExtensionDecides ==
  dtResult # "unset"
    => /\ (dtExt \in VideoExts => dtResult = "video")
       /\ (dtExt \in ModelExts => dtResult = "model")
       /\ (dtExt = S_ply => dtResult = "supersplat")
       /\ (dtExt = S_pdf => dtResult = "pdf")
       /\ (~dtRecognizedExt /\ ~dtVideoHost /\ ~dtH5PMarker => dtResult = "iframe")
       /\ dtResult \in ContentTypes

\* C5 (amended): for a non-empty src that new URL() accepts, video when the
\* hostname is a video platform's or the extension is a video one, and
\* otherwise model, supersplat, pdf by extension; iframe for the empty string,
\* for a src new URL() refuses, and when there is no recognized extension,
\* video hostname or h5p marker; always one of the content types.
C5_DetectTypeByHostThenExtension ==
  dtResult # "unset"
    => /\ (dtSrc = <<>> \/ ~dtUrl.ok => dtResult = "iframe")
       /\ (dtSrc # <<>> /\ dtUrl.ok =>
             /\ (dtVideoHost \/ dtExt \in VideoExts => dtResult = "video")
             /\ (~dtVideoHost /\ dtExt \in ModelExts => dtResult = "model")
             /\ (~dtVideoHost /\ dtExt = S_ply => dtResult = "supersplat")
             /\ (~dtVideoHost /\ dtExt = S_pdf => dtResult = "pdf"))
       /\ (~dtRecognizedExt /\ ~dtVideoHost /\ ~dtH5PMarker => dtResult = "iframe")
       /\ dtResult \in ContentTypes

\* a .pdf on a video platform's host is a video
C5_Witness ==
  dtResult = "video" /\ dtExt = S_pdf /\ includes(dtSrc, S_youtube) /\ dtUrl.ok

\* C6: a manifest fetch that rejects or answers not-ok changes no field of
\* this.config, creates no transcript or attribution UI, and initialize() sets
\* isReady and dispatches wrapper:ready.
C6_ManifestFailureKeepsConfig ==
  [][(lastOp'.name = "loadManifest" /\ lastOp'.via \in {"rejected", "not-ok"})
       => /\ config' = config
          /\ dom' = dom
          /\ dom'.transcripts = 0 /\ dom'.attribution = 0 /\ ~dom'.error
          /\ isReady'
          /\ pc' = "ready"
          /\ "wrapper:ready" \in lastOp'.events
          /\ readyEvents' = readyEvents + 1]_vars

\* the fetch answered 404 and the wrapper is ready
C6_Witness ==
  lastOp.name = "loadManifest" /\ lastOp.via = "not-ok" /\ isReady /\ config.title = "T"

\* C7: unframed, no message is ever posted and lastHeight and lastWidth stay
\* as constructed.
C7_UnframedNeverPosts ==
  ~embedded => /\ lastPost = NoPost
               /\ ~lastOp.posted
               /\ lastHeight = 0
               /\ lastWidth = 0

\* unframed, the time-out of a triggerResize() ran sendResizeMessage() while a
\* debounced one is pending
C7_Witness ==
  /\ ~embedded /\ lastOp.name = "sendResizeMessage" /\ lastOp.via = "trigger"
  /\ DebounceTimers # {} /\ pc = "ready"

\* C8: the theme createWrapperStructure() detects is the configured one when
\* that is not 'auto'; else high-contrast when prefers-contrast: high matches;
\* else dark when prefers-color-scheme: dark matches; else light.
C8_ThemePriority ==
  lastOp.name = "createWrapperStructure"
    => LET unpinned == config.theme \in {"auto", ""} IN
       /\ (~unpinned => currentTheme = config.theme)
       /\ (unpinned /\ prefersContrast => currentTheme = "high-contrast")
       /\ (unpinned /\ ~prefersContrast /\ prefersDark => currentTheme = "dark")
       /\ (unpinned /\ ~prefersContrast /\ ~prefersDark => currentTheme = "light")
       /\ dom.themeClass = currentTheme

\* automatic mode with both media queries matching: high contrast wins
C8_Witness ==
  /\ lastOp.name = "createWrapperStructure" /\ config.theme = "auto"
  /\ prefersContrast /\ prefersDark /\ currentTheme = "high-contrast"

\* C9: destroy() leaves no debounce timer pending, so every debounce time-out
\* that is pending or fires was set after the last destroy().
C9_DestroyClearsTimer ==
  /\ lastOp.name = "destroy" => DebounceTimers = {}
  /\ \A i \in DebounceTimers : ~timers[i].stale
  /\ lastOp.via = "debounce" => ~lastOp.stale

\* destroy() was called while a burst's timer was pending
C9_Witness == lastOp.name = "destroy" /\ lastOp.burst >= 1 /\ DebounceTimers = {}

\* C10 (as claimed): after destroy() the theme listener is detached: no
\* system preference change applies a theme or dispatches theme:change.
C10_ListenerDetached ==
  destroyed
    => /\ ThemeListener \notin mqListeners
       /\ lastOp.name # "applyTheme"
       /\ "theme:change" \notin lastOp.events

\* C11 (as claimed): the second of two toggleTranscript() calls leaves the
\* flag, aria-hidden, aria-expanded, the label and the number of transcript
\* sections as they were before the first.
C11_ToggleTwiceRestores ==
  [][(lastOp'.name = "toggleTranscript" /\ prevToggle # <<>>)
       => TranscriptSnapshot' = prevToggle]_vars

\* The initialization steps of C12, each told by what it changes.
StructureBuilt == dom'.built # dom.built
ListenerAttached == mqListeners' # mqListeners
ResizeArmed == armed' # armed
ManifestStarted == pc' = "fetching" /\ pc # "fetching"
ReadySet == isReady' /\ ~isReady
ReadyDispatched == "wrapper:ready" \in lastOp'.events

\* C12: the steps of initialize() happen in order, each at most once, none
\* before the one before it has completed: the structure first; the theme
\* listener on the built structure, before resize is armed; resize armed
\* after the theme step; the manifest load started after that and only with
\* a manifestUrl; isReady and wrapper:ready together, last, once the manifest
\* load (if any) has settled.
C12_InitOrder ==
  [][/\ StructureBuilt => pc = "new" /\ dom'.built /\ currentTheme' = detectTheme
     /\ ListenerAttached => /\ pc = "structure" /\ dom.built
                            /\ mqListeners = {} /\ ~armed /\ ~isReady
     /\ ResizeArmed => pc = "theme" /\ dom.built /\ armed' /\ ~isReady
     /\ ManifestStarted => /\ pc = "resize" /\ dom.built /\ armed = embedded
                           /\ config.manifestUrl # NULL /\ ~isReady
     /\ ReadySet /\ pc' = "ready" => ReadyDispatched
     /\ ReadyDispatched =>
          /\ ReadySet /\ readyEvents = 0 /\ dom.built /\ armed = embedded
          /\ IF config.manifestUrl = NULL THEN pc = "resize"
                                          ELSE pc \in {"fetching", "body"}]_vars

\* framed, automatic theme, manifest loaded: every step was taken
C12_Witness ==
  /\ pc = "ready" /\ isReady /\ readyEvents = 1 /\ dom.built /\ mediaQuery # NULL
  /\ armed /\ manifest = FullManifest

\* C13: with a manifestUrl, isReady is not set and wrapper:ready not dispatched
\* before the manifest fetch has settled; the event is dispatched by the step
\* that settles it, and its detail.config is the configuration with what the
\* manifest gave applied (unchanged when the load failed).
C13_ReadyAfterManifest ==
  [][/\ (config'.manifestUrl # NULL
          /\ pc' \in {"new", "structure", "theme", "resize", "fetching", "body"})
        => ~isReady' /\ readyEvents' = 0
     /\ (ReadyDispatched /\ config.manifestUrl # NULL)
        => /\ pc \in {"fetching", "body"}
           /\ lastOp'.name = "loadManifest"
           /\ lastOp'.detail = config'
           /\ lastOp'.detail = IF lastOp'.via = "json"
                                 THEN applyManifest(config, manifest')
                                 ELSE config]_vars

\* wrapper:ready carries the title, type, transcripts and attribution of the
\* manifest just parsed
C13_Witness ==
  /\ lastOp.name = "loadManifest" /\ lastOp.via = "json"
  /\ "wrapper:ready" \in lastOp.events /\ manifest = FullManifest
  /\ lastOp.detail.title = "M" /\ lastOp.detail.type = "video"
  /\ lastOp.detail.transcripts = "list" /\ lastOp.detail.attribution = "attr"

\* C14 (as claimed): once the wrapper is ready, config.type is a content
\* type, never 'auto'.
C14_TypeResolved == (pc = "ready" /\ isReady) => config.type \in ContentTypes

\* C15: framed, a sendResizeMessage() call that directly follows another and
\* measures the same height and width posts nothing and leaves lastHeight,
\* lastWidth and the last message as they are.
C15_SecondCallSilent ==
  [][(/\ embedded
      /\ lastOp.name = "sendResizeMessage" /\ lastOp'.name = "sendResizeMessage"
      /\ lastOp'.h = lastOp.h /\ lastOp'.w = lastOp.w)
       => /\ ~lastOp'.posted
          /\ lastHeight' = lastHeight /\ lastWidth' = lastWidth
          /\ lastPost' = lastPost]_vars

\* a call measured what the last posted message reported, and posted nothing
C15_Witness ==
  /\ embedded /\ lastOp.name = "sendResizeMessage" /\ lastOp.via = "call"
  /\ ~lastOp.posted /\ lastOp.same
  /\ lastPost = [h |-> lastOp.h, w |-> lastOp.w, posted |-> TRUE]

\* C16: at most one debounce timer is pending in every reachable state.
C16_AtMostOneDebounceTimer == Cardinality(DebounceTimers) <= 1

\* an inbound H5P message called debouncedResize() while the timer of an
\* earlier call was pending
C16_Witness ==
  /\ lastOp.name = "debouncedResize" /\ lastOp.via = "message" /\ burstCalls >= 2
  /\ Cardinality(DebounceTimers) = 1

\* C17 (as claimed): when a step of initialize() throws, the error panel is
\* rendered, isReady stays false and wrapper:ready is not dispatched.
C17_ErrorPanelOnThrow ==
  lastOp.via = "throws" => dom.error /\ ~isReady /\ readyEvents = 0

\* C18 (as claimed): whatever step fails, the promise of initialize() never
\* rejects.
C18_InitializeNeverRejects == pc # "rejected"

\* C19 (as claimed): a manifest body that is not JSON is shown to the user as
\* an error panel, and the wrapper still gets ready.
C19_InvalidJsonShowsError ==
  (lastOp.name = "loadManifest" /\ lastOp.via = "invalid-json") => dom.error /\ isReady

\* C20: a transcript fetch that rejects or answers not-ok puts the
\* 'Transcript unavailable' notice in .lo-transcript-text and changes nothing
\* else: not the rest of the DOM, config, isReady, the position of
\* initialize(), the resize state or the timers.
C20_TranscriptFailureLocal ==
  [][(lastOp'.name = "loadTranscript" /\ lastOp'.via \in {"rejected", "not-ok"})
       => /\ dom'.transcriptText = "error"
          /\ dom' = [dom EXCEPT !.transcriptText = "error"]
          /\ config' = config /\ isReady' = isReady /\ pc' = pc
          /\ lastHeight' = lastHeight /\ lastWidth' = lastWidth /\ lastPost' = lastPost
          /\ timers' = timers /\ transcriptVisible' = transcriptVisible]_vars

\* the fetch of a transcript answered 404 after another had shown its text
C20_Witness ==
  /\ lastOp.name = "loadTranscript" /\ lastOp.via = "not-ok"
  /\ dom.transcriptText = "error" /\ dom.transcripts = 1 /\ isReady /\ ~dom.error

\* C21 (as claimed): videoPlugin.load with a src never rejects and completes
\* whether the Plyr stylesheet and script load, fail or never answer;
\* h5pPlugin.load has resolved when the resizer script failed to load.
C21_AssetsNeverBlockLoad ==
  /\ [](plugin.name = "video" /\ plugin.src # "" => plugin.result # "rejected")
  /\ (plugin.name = "video" /\ plugin.src # "") ~> (plugin.result = "resolved")
  /\ [](plugin.name = "h5p" /\ page.resizer = "error" => plugin.result = "resolved")

\* C22 (as claimed): an inbound message either requests one debounced report,
\* leaving exactly one debounce timer pending, or does nothing; the listener
\* raises no error for any payload.
C22_MessagesNeverThrow ==
  lastOp.via = "message"
    => /\ "error" \notin lastOp.events
       /\ lastOp.name = "debouncedResize" => Cardinality(DebounceTimers) = 1

\* C23: the dynamic-content interval calls sendResizeMessage() once per
\* firing, maxChecks times in all, and is cleared by the last; the H5P fallback
\* interval exists only when H5P content was detected and does the same
\* fallbackMax times; a cleared interval does not fire; both end.
C23_PollingTerminates ==
  /\ [](/\ intervals.checkCount <= maxChecks
        /\ intervals.fallbackCount <= fallbackMax
        /\ intervals.dynamicChecker = "cleared" <=> intervals.checkCount = maxChecks
        /\ intervals.fallbackChecker = "cleared" <=> intervals.fallbackCount = fallbackMax
        /\ intervals.dynamicChecker # "none" => embedded
        /\ intervals.fallbackChecker # "none" => embedded /\ h5pContent)
  /\ [][/\ lastOp'.via = "dynamicChecker"
           => /\ intervals.dynamicChecker = "set"
              /\ lastOp'.name = "sendResizeMessage"
              /\ intervals'.checkCount = intervals.checkCount + 1
        /\ lastOp'.via = "fallbackChecker"
           => /\ intervals.fallbackChecker = "set"
              /\ lastOp'.name = "sendResizeMessage"
              /\ intervals'.fallbackCount = intervals.fallbackCount + 1]_vars
  /\ (intervals.dynamicChecker = "set") ~> (intervals.dynamicChecker = "cleared")
  /\ (intervals.fallbackChecker = "set") ~> (intervals.fallbackChecker = "cleared")

\* the last firing of the dynamic-content interval, the fallback one long done
C23_Witness ==
  /\ lastOp.via = "dynamicChecker"
  /\ intervals = [dynamicChecker |-> "cleared", checkCount |-> maxChecks,
                  fallbackChecker |-> "cleared", fallbackCount |-> fallbackMax]

ghDocHeights == {ghInput.scrollH, ghInput.offsetH, ghInput.docH}
ghPositive == {h \in ghDocHeights : h > 0}

\* C24 (as claimed): the ceiling of the rectangle height when that is
\* positive; otherwise, some document height being positive, the minimum of
\* the three document heights.
C24_MinOfDocumentHeights ==
  ghResult # -1
    => /\ ghInput.rect2 > 0 => 2 * ghResult \in {ghInput.rect2, ghInput.rect2 + 1}
       /\ (ghInput.rect2 = 0 /\ ghPositive # {})
            => \A h \in ghDocHeights : ghResult <= h

\* C24 (amended): the ceiling of the rectangle height when that is positive;
\* otherwise the minimum of those of the three document heights that are
\* positive, when there is one.
C24_MinOfPositiveHeights ==
  ghResult # -1
    => /\ ghInput.rect2 > 0 => 2 * ghResult \in {ghInput.rect2, ghInput.rect2 + 1}
       /\ (ghInput.rect2 = 0 /\ ghPositive # {})
            => /\ ghResult \in ghPositive
               /\ \A h \in ghPositive : ghResult <= h

\* no rectangle, body.scrollHeight 0, the two offset heights 2 and 1: 1
C24_Witness ==
  ghInput = [rect2 |-> 0, scrollH |-> 0, offsetH |-> 2, docH |-> 1] /\ ghResult = 1

\* C25: with no positive rectangle or document height getContentHeight()
\* returns 400, and what it returns is positive for every layout.
C25_FallbackPositive ==
  ghResult # -1
    => /\ ghResult > 0
       /\ (ghInput.rect2 <= 0 /\ \A h \in ghDocHeights : h <= 0)
            => ghResult = FallbackHeight

\* the degenerate layout measured
C25_Witness == ghInput = NoLayout /\ ghResult = FallbackHeight

\* C26 (as claimed): toggleTranscript() with a transcript section leaves the
\* one debounce timer pending and no other time-out, and the report it asked
\* for is cancelled by destroy(): no time-out set before a destroy() runs
\* sendResizeMessage() after it.
C26_ToggleDebounced ==
  /\ (lastOp.name = "toggleTranscript" /\ dom.transcripts > 0)
       => /\ Cardinality(DebounceTimers) = 1
          /\ \A i \in 1..Len(timers) : timers[i].kind = "debounce"
  /\ lastOp.via = "trigger" => ~lastOp.stale

PinnedThemes == {"light", "dark", "high-contrast"}

\* C27: with config.theme pinned no media-query listener is attached and,
\* once the structure is built, currentTheme and the theme class are
\* config.theme in every state; and currentTheme changes on a system
\* preference change only when config.theme is 'auto'.
C27_PinnedThemeFixed ==
  /\ [](config.theme \in PinnedThemes
          => /\ mqListeners = {} /\ mediaQuery = NULL
             /\ lastOp.name # "applyTheme"
             /\ dom.built => currentTheme = config.theme /\ dom.themeClass = config.theme)
  /\ [][(prefersDark' # prefersDark /\ currentTheme' # currentTheme)
          => config.theme = "auto"]_vars

\* pinned to light, the system preference turned to dark, the wrapper ready
C27_Witness ==
  /\ config.theme = "light" /\ prefersDark /\ lastOp.name = "mediaQueryChange"
  /\ isReady /\ currentTheme = "light" /\ dom.themeClass = "light"

C29_TitlePrecedence ==
  [][(lastOp'.name = "loadManifest" /\ lastOp'.via = "json")
       => /\ config.title # "" => config'.title = config.title
          /\ (config.title = "" /\ manifest'.title # UNDEFINED)
               => config'.title = manifest'.title]_vars

\* the options gave 'T', the manifest 'M': the title is 'T'
C29_Witness ==
  /\ lastOp.name = "loadManifest" /\ lastOp.via = "json"
  /\ manifest.title = "M" /\ config.title = "T"

\* C30 (as claimed): framed, whatever initializeResize() measured, a resize
\* message has been posted when the manifest fetch is issued.
C30_FirstReportBeforeManifest ==
  [][(embedded /\ ManifestStarted) => lastPost.posted]_vars

\* C30 (amended): framed, when the manifest fetch is issued initializeResize()
\* has just run: the listeners and intervals are set and its
\* sendResizeMessage() has measured, and has posted that measurement unless
\* the height is at most 1 and the width 0.
C30_FirstMeasureBeforeManifest ==
  [][(embedded /\ ManifestStarted)
       => /\ armed /\ intervals.dynamicChecker = "set"
          /\ lastOp.name = "sendResizeMessage" /\ lastOp.via = "initializeResize"
          /\ lastOp.posted <=> (lastOp.h > 1 \/ lastOp.w # 0)
          /\ lastPost = IF lastOp.posted
                           THEN [h |-> lastOp.h, w |-> lastOp.w, posted |-> TRUE]
                           ELSE NoPost
          /\ ~isReady /\ readyEvents = 0]_vars

\* framed, the fetch in flight, the first report posted before it
C30_Witness ==
  /\ embedded /\ pc = "fetching" /\ ~isReady
  /\ lastPost.posted /\ lastHeight = lastPost.h /\ armed

\* C31: every message sendResizeMessage() or forceResize() posts has exactly
\* the fields subject, 'lti.frameResize', and height, the integer
\* getContentHeight() returned in that call, and goes to target origin '*';
\* nothing else posts a message.
C31_MessageShape ==
  /\ lastOp.posted
       => /\ lastOp.name \in {"sendResizeMessage", "forceResize"}
          /\ DOMAIN lastMessage.data = {"subject", "height"}
          /\ lastMessage.data.subject = "lti.frameResize"
          /\ lastMessage.data.height = lastOp.h
          /\ lastOp.h \in MeasuredHeights /\ lastOp.h \in Int
          /\ lastMessage.targetOrigin = "*"
  /\ lastMessage # NoMessage => lastMessage = frameResize(lastPost.h)
  /\ lastMessage = NoMessage <=> ~lastPost.posted

\* forceResize() has just posted a second message, the height unchanged
C31_Witness ==
  /\ lastOp.name = "forceResize" /\ lastOp.posted /\ lastOp.same
  /\ lastMessage.data.height = lastHeight /\ lastHeight > 0

\* C32: lastHeight and lastWidth always are the height and width measured
\* for the message posted last (0 and 0 while none was posted); they change
\* only in a step of sendResizeMessage() or forceResize() that posts; a
\* sendResizeMessage() that posts nothing leaves both as they were.
C32_LastValuesTrackPosts ==
  /\ [](/\ lastHeight = lastPost.h /\ lastWidth = lastPost.w
        /\ ~lastPost.posted => (lastHeight = 0 /\ lastWidth = 0))
  /\ [][(lastHeight' # lastHeight \/ lastWidth' # lastWidth)
          => /\ lastOp'.name \in {"sendResizeMessage", "forceResize"}
             /\ lastOp'.posted
             /\ lastHeight' = lastOp'.h /\ lastWidth' = lastOp'.w
             /\ lastMessage'.data.height = lastHeight']_vars
  /\ [][(lastOp'.name = "sendResizeMessage" /\ ~lastOp'.posted)
          => /\ lastHeight' = lastHeight /\ lastWidth' = lastWidth
             /\ lastPost' = lastPost /\ lastMessage' = lastMessage]_vars

\* a sendResizeMessage() measured a height one off the one reported last, at
\* the same width, and posted nothing: the stored values are still those of
\* the last message
C32_Witness ==
  /\ lastOp.name = "sendResizeMessage" /\ ~lastOp.posted /\ embedded
  /\ lastPost.posted /\ lastOp.h # lastHeight /\ lastOp.w = lastWidth
  /\ lastHeight = lastPost.h /\ lastMessage.data.height = lastHeight

\* C33: destroyed is terminal: once destroy() has run, isReady is false in
\* every later state and no wrapper:ready event is dispatched any more, also
\* when destroy() ran while the manifest fetch was pending.
C33_DestroyedTerminal ==
  /\ [](destroyed => ~isReady)
  /\ [][destroyed => (readyEvents' = readyEvents
                      /\ "wrapper:ready" \notin lastOp'.events)]_vars

C35_LatestTranscriptShown ==
  (/\ trFetches = <<>> /\ dom.transcripts > 0
   /\ lastOp.name = "loadTranscript" /\ lastOp.via \in {"text", "rejected", "not-ok"})
    => dom.transcriptText \in {dom.language, "error"}

\* C35 (amended): transcript fetches are not cancelled and their responses
\* are applied as they arrive: each settling fetch writes its own outcome to
\* the panel, its language's text or the error notice (an empty text changes
\* nothing), so that once all have settled the panel shows the outcome of
\* the response that arrived last.
C35_LastArrivalShown ==
  [][(lastOp'.name = "loadTranscript" /\ Len(trFetches') < Len(trFetches))
       => \E i \in 1..Len(trFetches) :
            /\ trFetches' = Without(trFetches, i)
            /\ dom'.transcriptText = CASE lastOp'.via = "text" -> trFetches[i]
                                       [] lastOp'.via = "empty" -> dom.transcriptText
                                       [] OTHER -> "error"]_vars

\* 'es' was selected while the fetch of 'en' was in flight; the response for
\* 'en' arrived last and is what the panel shows
C35_Witness ==
  /\ trFetches = <<>> /\ lastOp.name = "loadTranscript" /\ lastOp.via = "text"
  /\ dom.language = "es" /\ dom.transcriptText = "en"

\* C36: with the container in the document, one dispatchEvent(name, detail)
\* is heard exactly once by a listener on the container and exactly once by
\* a listener on document.
C36_HeardOnce ==
  [][(lastOp'.name = "dispatchEvent" /\ delivery'.dispatched = delivery.dispatched + 1
        /\ container # NULL /\ delivery.attached /\ delivery.listeners = Nodes)
       => /\ delivery'.heard["container"] = delivery.heard["container"] + 1
          /\ delivery'.heard["document"] = delivery.heard["document"] + 1]_vars

\* C37: whenever the transcript section exists, transcriptVisible is true
\* exactly when the content's aria-hidden is 'false' and the toggle's
\* aria-expanded is 'true', whatever toggleTranscript() calls came before,
\* those before the section was created included.
C37_FlagMatchesAria ==
  dom.transcripts > 0
    => (transcriptVisible <=> (dom.ariaHidden = "false" /\ dom.ariaExpanded = "true"))

\* C38: the three detectType implementations, of src/contentPlugins.js and
\* of the table-based and the switch-based registry, return the same type
\* for every src, though they test .pdf and .ply in different order.
C38_DetectTypesAgree ==
  dtResult # "unset"
    => /\ dtResult = detectType(dtSrc, dtBase)
       /\ detectTypeTable(dtSrc, dtBase) = dtResult
       /\ detectTypeSwitch(dtSrc, dtBase) = dtResult

\* a .ply under /h5p/ on a video host: 'video' for all three
C38_Witness ==
  /\ dtResult = "video" /\ dtExt = S_ply /\ includes(dtSrc, S_h5pPath)
  /\ dtUrl.ok /\ includes(dtUrl.hostname, S_youtube)
  /\ detectTypeTable(dtSrc, dtBase) = "video"

\* C39: getPlugin(type) resolves to the loader the type names for video,
\* model, pdf, h5p, supersplat and iframe (pdf and iframe both to the iframe
\* plugin's) and to the iframe plugin's loader for every other type; the
\* table-based and the switch-based variant agree.
C39_GetPluginResolves ==
  registry.type # "unset"
    => /\ registry.table = registry.switch
       /\ registry.table =
            CASE registry.type = "video" -> "videoPlugin.load"
              [] registry.type = "model" -> "modelPlugin.load"
              [] registry.type = "h5p" -> "h5pPlugin.load"
              [] registry.type = "supersplat" -> "superSplatPlugin.load"
              [] OTHER -> "iframePlugin.load"

====
